---- MODULE Spec2Model ----
(***************************************************************************)
(* Model of the retrieval core of sourcerer: the FAISS-backed VectorStore  *)
(* (backend/rag/storage.py), its persistence through safe_write_json and   *)
(* safe_read_json (backend/utils/file_utils.py), RAGEngine.index_items     *)
(* (backend/rag/engine.py) and the ConversationTruncator                   *)
(* (backend/chat/truncation.py).                                           *)
(*                                                                         *)
(* Representation choices:                                                 *)
(*  - a vector is a tuple of integers; a unit vector is represented by the *)
(*    primitive integer vector of its direction (the zero vector by        *)
(*    itself), and the inner product of two unit vectors is their cosine   *)
(*    in thousandths, rounded down;                                        *)
(*  - a Python dict is a function on its set of keys; a JSON object key is *)
(*    a string of decimal digits, written as a sequence of characters;     *)
(*  - the content of a chat message is represented by its length in tokens *)
(*    (tiktoken's encoding) and in characters.                             *)
(***************************************************************************)
EXTENDS Integers, Sequences, FiniteSets, TLC

VARIABLES
    vector_store,   \* the VectorStore instance: index, metadata, mappings
    disk,           \* the three files of the vector_store directory
    ret,            \* the last call: operation, arguments, what it returned
    removed,        \* item ids removed and not added again since (history)
    conversation,   \* input of truncate_if_needed: messages, new message
    config,         \* active provider and model, tokenizer and provider state
    truncated,      \* what truncate_if_needed returned
    saved,          \* the stores of the last complete and of the last save (history)
    engines,        \* the VectorStore instances of RAGEngine objects alive together
    request,        \* the retrieve_context call: its arguments, sources, model
    chats,          \* ChatManager: the session directories and the handler cache
    configuration,  \* ConfigManager.config: providers, active provider and model
    history         \* ChatSessionHandler: messages.jsonl, the cache, the LLM call

vars == <<vector_store, disk, ret, removed, conversation, config, truncated,
          saved, engines, request, chats, configuration, history>>

storeVars == <<vector_store, disk, ret, removed, saved>>
truncVars == <<conversation, config, truncated>>
appVars == <<chats, configuration, history>>

(***************************************************************************)
(* Bounds of the model                                                     *)
(***************************************************************************)
MaxSlots == 2       \* slots of the index
MaxMsgs == 5        \* messages of a conversation
MaxFailures == 1    \* saves that fail in one run

\* embeddings per add_embeddings call, items per index_items call
BatchSizes == {0, 1, 2}
\* k of a search
Ks == {1, 2}

ItemIds == {"a", "b"}

\* store dimension: VectorStore(dimension); 3 as in the scenario of the tests
Dimension == 3

\* embeddings handed to the store; <<2, 0, 0>> normalizes to <<1, 0, 0>>,
\* <<1, 0>> has the wrong length
GoodVectors == {<<2, 0, 0>>, <<9, 1, 0>>}
BadVectors == {<<1, 0>>}
Queries == {<<1, 0, 0>>, <<0, 2, 0>>}
\* min_similarity in thousandths: 0.3 is the default of search
MinSimilarities == {300, 993, 994}

\* Python None, and a file that does not exist
None == [none |-> TRUE]
NoFile == [file |-> "absent"]

(***************************************************************************)
(* Python dict helpers                                                     *)
(***************************************************************************)
EmptyDict == [x \in {} |-> None]
Put(d, k, v) == [x \in DOMAIN d \cup {k} |-> IF x = k THEN v ELSE d[x]]
Del(d, k) == [x \in DOMAIN d \ {k} |-> d[x]]
Get(d, k, default) == IF k \in DOMAIN d THEN d[k] ELSE default

(***************************************************************************)
(* json: dict keys are written as strings and read back as strings         *)
(***************************************************************************)
DigitChars == <<"0", "1", "2", "3", "4", "5", "6", "7", "8", "9">>

RECURSIVE PyStr(_)
\* str(k) of a non-negative int
PyStr(n) ==
    IF n < 10 THEN <<DigitChars[n + 1]>>
    ELSE PyStr(n \div 10) \o <<DigitChars[(n % 10) + 1]>>

DigitValue(c) == (CHOOSE i \in 1..10 : DigitChars[i] = c) - 1

RECURSIVE PyInt(_)
\* int(k) of a string of digits
PyInt(s) ==
    IF Len(s) = 1 THEN DigitValue(s[1])
    ELSE 10 * PyInt(SubSeq(s, 1, Len(s) - 1)) + DigitValue(s[Len(s)])

\* json.dump of a dict with int keys: every key becomes str(key)
JsonDumpIntKeys(d) ==
    [s \in {PyStr(k) : k \in DOMAIN d} |->
        d[CHOOSE k \in DOMAIN d : PyStr(k) = s]]

\* {int(k): v for k, v in data.items()}
IntKeys(data) ==
    [k \in {PyInt(s) : s \in DOMAIN data} |->
        data[CHOOSE s \in DOMAIN data : PyInt(s) = k]]

(***************************************************************************)
(* Vectors                                                                 *)
(***************************************************************************)
Abs(x) == IF x < 0 THEN -x ELSE x

RECURSIVE Gcd(_, _)
Gcd(x, y) == IF y = 0 THEN x ELSE Gcd(y, x % y)

RECURSIVE GcdSeq(_)
GcdSeq(v) == IF Len(v) = 0 THEN 0 ELSE Gcd(Abs(Head(v)), GcdSeq(Tail(v)))

RECURSIVE Dot(_, _)
Dot(u, v) == IF Len(u) = 0 THEN 0 ELSE Head(u) * Head(v) + Dot(Tail(u), Tail(v))

\* _normalize_embeddings on one row: divide by the norm, a zero norm counts as 1
NormalizeRow(v) ==
    LET g == GcdSeq(v)
        norm == IF g = 0 THEN 1 ELSE g
    IN  [i \in DOMAIN v |-> v[i] \div norm]

\* VectorStore._normalize_embeddings: every row of the array
normalize_embeddings(embeddings) ==
    [i \in DOMAIN embeddings |-> NormalizeRow(embeddings[i])]

RECURSIVE ISqrtIn(_, _, _)
\* the largest r in lo..hi with r * r <= x, by bisection
ISqrtIn(x, lo, hi) ==
    IF lo = hi THEN lo
    ELSE LET mid == (lo + hi + 1) \div 2
         IN  IF mid * mid <= x THEN ISqrtIn(x, mid, hi)
             ELSE ISqrtIn(x, lo, mid - 1)

ISqrt(x) == ISqrtIn(x, 0, 1000)

\* cosine of two directions in thousandths, rounded down
Cosine(u, v) ==
    LET d == Dot(u, v)
        nu == Dot(u, u)
        nv == Dot(v, v)
    IN  IF d = 0 THEN 0
        ELSE LET c == ISqrt(((d * d * 10000) \div (nu * nv)) * 100)
             IN  IF d < 0 THEN -c ELSE c

UnitVectors == {NormalizeRow(v) : v \in GoodVectors \cup Queries} \cup {<<0, 0, 0>>}

CosineTable == [u \in UnitVectors |-> [v \in UnitVectors |-> Cosine(u, v)]]

\* IndexFlatIP: the inner product of two stored (unit) vectors
InnerProduct(u, v) == CosineTable[u][v]

(***************************************************************************)
(* Files of the vector_store directory                                     *)
(***************************************************************************)
\* a file whose write was cut short: neither faiss nor json can read it
Corrupt == [file |-> "corrupt"]

NoFiles == [index_file |-> NoFile, metadata_file |-> NoFile, mapping_file |-> NoFile]

\* a file that was written completely
DataFile(content) == [file |-> "data", content |-> content]

\* safe_read_json: None for a missing file and for one json cannot decode,
\* else the decoded object (as .content)
safe_read_json(file) == IF file.file = "data" THEN file ELSE None

\* Python truth value of what safe_read_json returned: None and {} are false
Truthy(data) == data # None /\ DOMAIN data.content # {}

(***************************************************************************)
(* VectorStore                                                             *)
(***************************************************************************)
\* metadata.get('deleted', False)
IsDeleted(metadata) == Get(metadata, "deleted", FALSE)

ntotal(index) == Len(index.vectors)

\* VectorStore._create_new_index
create_new_index(vs) ==
    [vs EXCEPT !.index = [d |-> vs.dimension, vectors |-> <<>>],
               !.metadata = EmptyDict,
               !.id_to_faiss = EmptyDict,
               !.faiss_to_id = EmptyDict,
               !.next_faiss_id = 0]

\* the attributes VectorStore.__init__ sets before it calls _load_index
NewStore(dimension) ==
    [dimension |-> dimension,
     index |-> None,
     metadata |-> EmptyDict,
     id_to_faiss |-> EmptyDict,
     faiss_to_id |-> EmptyDict,
     next_faiss_id |-> 0]

\* What the file system does during one _save_index: `steps` of the three
\* writes complete; `torn` says that the next one was begun and cut short,
\* which leaves a file neither faiss nor json can read
IoOk == [steps |-> 3, torn |-> FALSE]
IoFailures == [steps : {0, 1, 2}, torn : BOOLEAN]

\* VectorStore._save_index: the directory afterwards
save_index(vs, dk, io) ==
    LET steps == io.steps
        torn == io.torn
        mapping_data ==
            [id_to_faiss |-> vs.id_to_faiss,
             faiss_to_id |-> JsonDumpIntKeys(vs.faiss_to_id),
             next_faiss_id |-> vs.next_faiss_id]
        Written(n, content, old) ==
            IF steps >= n THEN DataFile(content)
            ELSE IF steps = n - 1 /\ torn THEN Corrupt
            ELSE old
    IN  [index_file |-> Written(1, vs.index, dk.index_file),
         metadata_file |-> Written(2, JsonDumpIntKeys(vs.metadata), dk.metadata_file),
         mapping_file |-> Written(3, mapping_data, dk.mapping_file)]

\* _save_index raises when a write fails
SaveRaises(io) == io.steps < 3

\* _load_index that reads the index and metadata.json but not id_mapping.json
load_index_without_mapping(dimension, dk) ==
    LET vs0 == NewStore(dimension)
    IN  IF dk.index_file.file = "data" /\ dk.metadata_file.file = "data"
        THEN [vs0 EXCEPT
                !.index = dk.index_file.content,
                !.metadata = IntKeys(dk.metadata_file.content)]
        ELSE create_new_index(vs0)

\* VectorStore.__init__ with _load_index over the directory dk
load_index(dimension, dk) ==
    LET vs0 == NewStore(dimension)
    IN  IF dk.index_file # NoFile /\ dk.metadata_file # NoFile
        THEN IF dk.index_file = Corrupt
             THEN create_new_index(vs0)       \* faiss.read_index raises
             ELSE
                LET metadata_data == safe_read_json(dk.metadata_file)
                    mapping_data == safe_read_json(dk.mapping_file)
                    vs1 == [vs0 EXCEPT !.index = dk.index_file.content]
                    vs2 == IF Truthy(metadata_data)
                           THEN [vs1 EXCEPT !.metadata = IntKeys(metadata_data.content)]
                           ELSE vs1
                IN  IF mapping_data # None
                    THEN [vs2 EXCEPT
                            !.id_to_faiss = mapping_data.content.id_to_faiss,
                            !.faiss_to_id =
                                IntKeys(mapping_data.content.faiss_to_id),
                            !.next_faiss_id =
                                mapping_data.content.next_faiss_id]
                    ELSE vs2
        ELSE create_new_index(vs0)

RECURSIVE StoreMetadata(_, _, _, _)
\* the loop of add_embeddings over enumerate(metadata_list), from entry i on
StoreMetadata(vs, metadata_list, start_id, i) ==
    IF i > Len(metadata_list) THEN vs
    ELSE
        LET faiss_id == start_id + (i - 1)
            item_id == metadata_list[i].item_id
        IN  StoreMetadata(
                [vs EXCEPT !.metadata = Put(@, faiss_id, metadata_list[i]),
                           !.id_to_faiss = Put(@, item_id, faiss_id),
                           !.faiss_to_id = Put(@, faiss_id, item_id)],
                metadata_list, start_id, i + 1)

\* add_embeddings without the test of len(embeddings) against
\* len(metadata_list)
add_embeddings_no_count_check(vs, dk, embeddings, metadata_list, io) ==
    IF Len(embeddings) = 0
    THEN [vs |-> vs, dk |-> dk, raised |-> FALSE]
    ELSE IF \E i \in DOMAIN embeddings : Len(embeddings[i]) # vs.index.d
    THEN [vs |-> vs, dk |-> dk, raised |-> TRUE]
    ELSE
        LET vs1 == [vs EXCEPT !.index.vectors =
                                @ \o normalize_embeddings(embeddings)]
            vs2 == StoreMetadata(vs1, metadata_list, vs.next_faiss_id, 1)
            vs3 == [vs2 EXCEPT !.next_faiss_id = @ + Len(embeddings)]
        IN  [vs |-> vs3, dk |-> save_index(vs3, dk, io), raised |-> SaveRaises(io)]

\* VectorStore.add_embeddings: the store, the directory and whether it raised
add_embeddings(vs, dk, embeddings, metadata_list, io) ==
    IF Len(embeddings) # Len(metadata_list)
    THEN [vs |-> vs, dk |-> dk, raised |-> TRUE]              \* ValueError
    ELSE IF Len(embeddings) = 0
    THEN [vs |-> vs, dk |-> dk, raised |-> FALSE]
    ELSE IF \E i \in DOMAIN embeddings : Len(embeddings[i]) # vs.index.d
    THEN [vs |-> vs, dk |-> dk, raised |-> TRUE]              \* index.add asserts
    ELSE
        LET normalized_embeddings == normalize_embeddings(embeddings)
            start_id == vs.next_faiss_id
            vs1 == [vs EXCEPT !.index.vectors = @ \o normalized_embeddings]
            vs2 == StoreMetadata(vs1, metadata_list, start_id, 1)
            vs3 == [vs2 EXCEPT !.next_faiss_id = @ + Len(embeddings)]
        IN  [vs |-> vs3, dk |-> save_index(vs3, dk, io), raised |-> SaveRaises(io)]

\* VectorStore.remove_embedding
remove_embedding(vs, dk, item_id, io) ==
    IF item_id \notin DOMAIN vs.id_to_faiss
    THEN [vs |-> vs, dk |-> dk, raised |-> FALSE]
    ELSE
        LET faiss_id == vs.id_to_faiss[item_id]
            vs1 == IF faiss_id \in DOMAIN vs.metadata
                   THEN [vs EXCEPT !.metadata[faiss_id] = Put(@, "deleted", TRUE)]
                   ELSE vs
            vs2 == [vs1 EXCEPT !.id_to_faiss = Del(@, item_id)]
        IN  [vs |-> vs2, dk |-> save_index(vs2, dk, io), raised |-> SaveRaises(io)]

\* VectorStore.update_embedding; io_remove and io_add are the file system
\* during the save of remove_embedding and of add_embeddings
update_embedding(vs, dk, item_id, embedding, metadata, io_remove, io_add) ==
    LET r == IF item_id \in DOMAIN vs.id_to_faiss
             THEN remove_embedding(vs, dk, item_id, io_remove)
             ELSE [vs |-> vs, dk |-> dk, raised |-> FALSE]
    IN  IF r.raised THEN r
        ELSE add_embeddings(r.vs, r.dk, <<embedding>>, <<metadata>>, io_add)

\* VectorStore.get_embedding_metadata
get_embedding_metadata(vs, item_id) ==
    IF item_id \notin DOMAIN vs.id_to_faiss THEN None
    ELSE
        LET faiss_id == vs.id_to_faiss[item_id]
            metadata == Get(vs.metadata, faiss_id, None)
        IN  IF metadata # None /\ ~IsDeleted(metadata) THEN metadata ELSE None

\* VectorStore.get_stats
get_stats(vs) ==
    [total_embeddings |-> ntotal(vs.index),
     active_embeddings |->
        Cardinality({f \in DOMAIN vs.metadata : ~IsDeleted(vs.metadata[f])}),
     deleted_embeddings |->
        Cardinality({f \in DOMAIN vs.metadata : IsDeleted(vs.metadata[f])}),
     dimension |-> vs.dimension]

RECURSIVE InnerProducts(_, _)
\* the inner product of the query with every stored vector, in slot order
InnerProducts(vectors, query) ==
    IF Len(vectors) = 0 THEN <<>>
    ELSE <<InnerProduct(Head(vectors), query)>>
         \o InnerProducts(Tail(vectors), query)

RECURSIVE TopSlots(_, _, _)
\* the n best of the slots in `left`, best first; among equal products the
\* lower slot comes first
TopSlots(sims, left, n) ==
    IF n = 0 \/ left = {} THEN <<>>
    ELSE
        LET s == CHOOSE t \in left :
                    \A u \in left :
                        sims[t + 1] > sims[u + 1]
                        \/ (sims[t + 1] = sims[u + 1] /\ t <= u)
        IN  <<[faiss_id |-> s, similarity |-> sims[s + 1]]>>
            \o TopSlots(sims, left \ {s}, n - 1)

\* index.search(query, n): the n slots (0-based) with the largest inner
\* product, largest first
FaissSearch(index, query, n) ==
    TopSlots(InnerProducts(index.vectors, query), 0..(ntotal(index) - 1), n)

RECURSIVE SearchLoop_strict(_, _, _, _, _, _)
\* the loop of search with similarity <= min_similarity as its threshold test
SearchLoop_strict(vs, candidates, i, results, k, min_similarity) ==
    IF i > Len(candidates) THEN results
    ELSE
        LET c == candidates[i]
            skip == \/ c.similarity <= min_similarity
                    \/ c.faiss_id \notin DOMAIN vs.metadata
                    \/ IsDeleted(vs.metadata[c.faiss_id])
            results1 == IF skip THEN results ELSE Append(results, c)
        IN  IF ~skip /\ Len(results1) >= k THEN results1
            ELSE SearchLoop_strict(vs, candidates, i + 1, results1, k,
                                   min_similarity)

RECURSIVE SearchLoop(_, _, _, _, _, _)
\* the loop of search over the candidates, from candidate i on
SearchLoop(vs, candidates, i, results, k, min_similarity) ==
    IF i > Len(candidates) THEN results
    ELSE
        LET c == candidates[i]
        IN  IF c.similarity < min_similarity
            THEN SearchLoop(vs, candidates, i + 1, results, k, min_similarity)
            ELSE IF c.faiss_id \in DOMAIN vs.metadata
                    /\ IsDeleted(vs.metadata[c.faiss_id])
            THEN SearchLoop(vs, candidates, i + 1, results, k, min_similarity)
            ELSE
                LET results1 ==
                        IF c.faiss_id \in DOMAIN vs.metadata
                        THEN Append(results, c)
                        ELSE results
                IN  IF Len(results1) >= k THEN results1
                    ELSE SearchLoop(vs, candidates, i + 1, results1, k,
                                    min_similarity)

Min(x, y) == IF x < y THEN x ELSE y

\* search that asks the index for every slot, not for min(k * 2, ntotal)
SearchHits_whole_index(vs, query_embedding, k, min_similarity) ==
    IF ntotal(vs.index) = 0 THEN <<>>
    ELSE IF Len(query_embedding) # vs.index.d \/ k <= 0
    THEN <<>>
    ELSE
        LET normalized_query == NormalizeRow(query_embedding)
            candidates == FaissSearch(vs.index, normalized_query,
                                      ntotal(vs.index))
        IN  SearchLoop(vs, candidates, 1, <<>>, k, min_similarity)

\* VectorStore.search, as the slots it returns with their similarities
SearchHits(vs, query_embedding, k, min_similarity) ==
    IF ntotal(vs.index) = 0 THEN <<>>
    ELSE IF Len(query_embedding) # vs.index.d \/ k <= 0
    THEN <<>>                        \* index.search asserts, search returns []
    ELSE
        LET normalized_query == NormalizeRow(query_embedding)
            candidates == FaissSearch(vs.index, normalized_query,
                                      Min(k * 2, ntotal(vs.index)))
        IN  SearchLoop(vs, candidates, 1, <<>>, k, min_similarity)

RECURSIVE Results(_, _)
\* result = metadata.copy(); result['similarity'] = similarity, for every hit
Results(vs, hits) ==
    IF Len(hits) = 0 THEN <<>>
    ELSE <<Put(vs.metadata[Head(hits).faiss_id], "similarity",
               Head(hits).similarity)>>
         \o Results(vs, Tail(hits))

\* VectorStore.search
search(vs, query_embedding, k, min_similarity) ==
    Results(vs, SearchHits(vs, query_embedding, k, min_similarity))

(***************************************************************************)
(* RAGEngine.index_items                                                   *)
(***************************************************************************)
\* EmbeddingManager.create_embedding_metadata, the fields the store reads
create_embedding_metadata(item_id) == [item_id |-> item_id]

\* EmbeddingManager.encode_batch: the model's embeddings, or zero vectors
\* when the model fails
encode_batch(todo, encode_ok) ==
    [i \in DOMAIN todo |->
        IF encode_ok THEN todo[i].embedding ELSE [j \in 1..Dimension |-> 0]]

RECURSIVE SelectNewItems_no_skip(_, _, _, _)
\* the loop of index_items without the test for items already indexed
SelectNewItems_no_skip(vs, items, i, todo) ==
    IF i > Len(items) THEN todo
    ELSE IF ~items[i].has_text
    THEN SelectNewItems_no_skip(vs, items, i + 1, todo)
    ELSE SelectNewItems_no_skip(vs, items, i + 1, Append(todo, items[i]))

RECURSIVE SelectNewItems(_, _, _, _)
\* the loop of index_items over items: those neither indexed nor empty
SelectNewItems(vs, items, i, todo) ==
    IF i > Len(items) THEN todo
    ELSE IF get_embedding_metadata(vs, items[i].id) # None
    THEN SelectNewItems(vs, items, i + 1, todo)
    ELSE IF ~items[i].has_text
    THEN SelectNewItems(vs, items, i + 1, todo)
    ELSE SelectNewItems(vs, items, i + 1, Append(todo, items[i]))

\* RAGEngine.index_items
index_items(vs, dk, items, encode_ok, io) ==
    IF Len(items) = 0 THEN [vs |-> vs, dk |-> dk, raised |-> FALSE]
    ELSE
        LET todo == SelectNewItems(vs, items, 1, <<>>)
            metadata_list ==
                [i \in DOMAIN todo |-> create_embedding_metadata(todo[i].id)]
        IN  IF Len(todo) = 0 THEN [vs |-> vs, dk |-> dk, raised |-> FALSE]
            ELSE add_embeddings(vs, dk, encode_batch(todo, encode_ok),
                                metadata_list, io)

(***************************************************************************)
(* ConversationTruncator                                                   *)
(***************************************************************************)
default_limit == 4096
response_reserve == 1000
system_reserve == 500
min_keep_messages == 4

\* config.active_provider and config.active_model when none is set
NoProvider == ""

\* self.provider_limits.get(provider, {}).get(model, default_limit), for the
\* providers and models of the model's configurations
ProviderLimit(provider, model) ==
    IF provider = "openai" /\ model = "gpt-4" THEN 8192
    ELSE IF provider = "openai" /\ model = "gpt-3.5-turbo" THEN 4096
    ELSE default_limit

\* ConversationTruncator._get_token_limit
get_token_limit(cfg) ==
    IF ~cfg.config_ok THEN default_limit    \* config lookup raises
    ELSE IF cfg.active_provider # NoProvider /\ cfg.active_model # NoProvider
    THEN ProviderLimit(cfg.active_provider, cfg.active_model)
    ELSE default_limit

RECURSIVE SumTokens(_)
SumTokens(messages) ==
    IF Len(messages) = 0 THEN 0
    ELSE Head(messages).content.tokens + 4 + SumTokens(Tail(messages))

RECURSIVE SumChars(_)
SumChars(messages) ==
    IF Len(messages) = 0 THEN 0
    ELSE Head(messages).content.chars + SumChars(Tail(messages))

\* ConversationTruncator._count_conversation_tokens; new_message_content is
\* None for the empty string
count_conversation_tokens(messages, new_message_content, cfg) ==
    IF cfg.tiktoken_ok
    THEN SumTokens(messages)
         + (IF new_message_content # None
            THEN new_message_content.tokens + 4 ELSE 0)
    ELSE (SumChars(messages)
          + (IF new_message_content # None
             THEN new_message_content.chars ELSE 0)) \div 4

RECURSIVE RecentCount_whole_budget(_, _, _, _)
\* the backwards loop with all of target_tokens as the budget of the recent
\* messages
RecentCount_whole_budget(messages, i, recent_tokens, target_tokens) ==
    IF i < 1 THEN 0
    ELSE
        LET message_tokens == messages[i].content.tokens + 4
        IN  IF recent_tokens + message_tokens <= target_tokens
            THEN 1 + RecentCount_whole_budget(messages, i - 1,
                                 recent_tokens + message_tokens, target_tokens)
            ELSE 0

RECURSIVE RecentCount(_, _, _, _)
\* the backwards loop of _truncate_conversation from message i (1-based) down:
\* how many messages end up in recent_messages
RecentCount(messages, i, recent_tokens, target_tokens) ==
    IF i < 1 THEN 0
    ELSE
        LET message_tokens == messages[i].content.tokens + 4
        IN  IF 10 * (recent_tokens + message_tokens) <= 7 * target_tokens
            THEN 1 + RecentCount(messages, i - 1,
                                 recent_tokens + message_tokens, target_tokens)
            ELSE 0

\* ConversationTruncator._generate_summary: None without an active provider
\* or when the configuration lookup or the provider call fails
generate_summary(cfg) ==
    IF ~cfg.config_ok THEN None
    ELSE IF cfg.active_provider = NoProvider \/ ~cfg.provider_ok THEN None
    ELSE [text |-> "llm summary", tokens |-> 96, chars |-> 400]

\* _create_conversation_summary without the placeholder: no summary message
\* when _generate_summary returns None
create_conversation_summary_no_fallback(messages, cfg) ==
    IF Len(messages) = 0 THEN None
    ELSE
        LET summary == generate_summary(cfg)
        IN  IF summary = None THEN None
            ELSE [id |-> "summary", role |-> "system", content |-> summary,
                  timestamp |-> messages[Len(messages)].timestamp + 1,
                  metadata |-> [is_summary |-> TRUE,
                                summarized_count |-> Len(messages)]]

\* ConversationTruncator._create_conversation_summary; the placeholder names
\* the count and the timestamps of the first and the last message, and the
\* summary message is stamped with the current time
create_conversation_summary(messages, cfg) ==
    IF Len(messages) = 0 THEN None
    ELSE
        LET summary == generate_summary(cfg)
            summary_content ==
                IF summary = None
                THEN [text |-> "placeholder", tokens |-> 36, chars |-> 100,
                      count |-> Len(messages),
                      first |-> messages[1].timestamp,
                      last |-> messages[Len(messages)].timestamp]
                ELSE summary
        IN  [id |-> "summary", role |-> "system", content |-> summary_content,
             timestamp |-> messages[Len(messages)].timestamp + 1,
             metadata |-> [is_summary |-> TRUE,
                           summarized_count |-> Len(messages)]]

LastN(messages, n) ==
    SubSeq(messages, Len(messages) - n + 1, Len(messages))

RECURSIVE Reverse(_)
Reverse(q) == IF Len(q) = 0 THEN <<>> ELSE Reverse(Tail(q)) \o <<Head(q)>>

\* _truncate_conversation without the fallback to the last min_keep_messages
truncate_conversation_no_floor(messages, target_tokens, cfg) ==
    IF Len(messages) <= min_keep_messages
    THEN [list |-> messages, is_input |-> TRUE]
    ELSE
        LET n == RecentCount(messages, Len(messages), 0, target_tokens)
            older_messages == SubSeq(messages, 1, Len(messages) - n)
        IN  IF Len(older_messages) > 0
            THEN [list |-> <<create_conversation_summary(older_messages, cfg)>>
                           \o LastN(messages, n),
                  is_input |-> FALSE]
            ELSE [list |-> LastN(messages, n), is_input |-> FALSE]

\* _truncate_conversation with recent_messages.append(message) in place of
\* recent_messages.insert(0, message)
truncate_conversation_append(messages, target_tokens, cfg) ==
    IF Len(messages) <= min_keep_messages
    THEN [list |-> messages, is_input |-> TRUE]
    ELSE
        LET n == RecentCount(messages, Len(messages), 0, target_tokens)
            recent_messages == Reverse(LastN(messages, n))
            older_messages == SubSeq(messages, 1, Len(messages) - n)
        IN  IF n < min_keep_messages
            THEN [list |-> LastN(messages, min_keep_messages), is_input |-> FALSE]
            ELSE IF Len(older_messages) > 0
            THEN [list |-> <<create_conversation_summary(older_messages, cfg)>>
                           \o recent_messages,
                  is_input |-> FALSE]
            ELSE [list |-> recent_messages, is_input |-> FALSE]

\* ConversationTruncator._truncate_conversation; is_input says that the list
\* returned is the list object it was given
truncate_conversation(messages, target_tokens, cfg) ==
    IF Len(messages) = 0 THEN [list |-> messages, is_input |-> TRUE]
    ELSE IF Len(messages) <= min_keep_messages
    THEN [list |-> messages, is_input |-> TRUE]
    ELSE
        LET n == RecentCount(messages, Len(messages), 0, target_tokens)
            recent_messages == LastN(messages, n)
        IN  IF n < min_keep_messages
            THEN [list |-> LastN(messages, min_keep_messages), is_input |-> FALSE]
            ELSE
                LET older_messages == SubSeq(messages, 1, Len(messages) - n)
                    summary_message ==
                        create_conversation_summary(older_messages, cfg)
                IN  IF Len(older_messages) > 0 /\ summary_message # None
                    THEN [list |-> <<summary_message>> \o recent_messages,
                          is_input |-> FALSE]
                    ELSE [list |-> recent_messages, is_input |-> FALSE]

\* truncate_if_needed with total_tokens < available_tokens as its test
truncate_if_needed_strict(messages, new_message_content, cfg) ==
    LET available_tokens ==
            get_token_limit(cfg) - response_reserve - system_reserve
        total_tokens ==
            count_conversation_tokens(messages, new_message_content, cfg)
    IN  IF total_tokens < available_tokens
        THEN [list |-> messages, is_input |-> TRUE]
        ELSE IF ~cfg.tiktoken_ok
        THEN [list |-> messages, is_input |-> TRUE]
        ELSE truncate_conversation(messages, available_tokens, cfg)

\* truncate_if_needed without its try/except: what _truncate_conversation
\* raises reaches the caller
truncate_if_needed_no_except(messages, new_message_content, cfg) ==
    LET token_limit == get_token_limit(cfg)
        available_tokens == token_limit - response_reserve - system_reserve
        total_tokens ==
            count_conversation_tokens(messages, new_message_content, cfg)
        r == IF total_tokens <= available_tokens
             THEN [list |-> messages, is_input |-> TRUE]
             ELSE truncate_conversation(messages, available_tokens, cfg)
    IN  IF total_tokens > available_tokens /\ ~cfg.tiktoken_ok
              /\ Len(messages) > min_keep_messages
        THEN [list |-> <<>>, is_input |-> FALSE, raised |-> TRUE]
        ELSE [list |-> r.list, is_input |-> r.is_input, raised |-> FALSE]

\* ConversationTruncator.truncate_if_needed; raised says that an exception
\* left the call
truncate_if_needed(messages, new_message_content, cfg) ==
    LET token_limit == get_token_limit(cfg)
        available_tokens == token_limit - response_reserve - system_reserve
        total_tokens ==
            count_conversation_tokens(messages, new_message_content, cfg)
        r == IF total_tokens <= available_tokens
             THEN [list |-> messages, is_input |-> TRUE]
             ELSE IF ~cfg.tiktoken_ok
             THEN [list |-> messages, is_input |-> TRUE]  \* _get_encoding raises
             ELSE truncate_conversation(messages, available_tokens, cfg)
    IN  [list |-> r.list, is_input |-> r.is_input, raised |-> FALSE]

(***************************************************************************)
(* Inputs                                                                  *)
(***************************************************************************)
SeqsOf(S, sizes) == UNION {[1..m -> S] : m \in sizes}

\* numpy arrays: every row of one array has the same length
Arrays == {e \in SeqsOf(GoodVectors \cup BadVectors, BatchSizes) :
            \A i, j \in DOMAIN e : Len(e[i]) = Len(e[j])}

MetadataLists == SeqsOf({create_embedding_metadata(id) : id \in ItemIds}, BatchSizes)

\* source items: id, whether the combined text is non-empty, and the
\* embedding the model computes for that text
SourceItems == [id : ItemIds, has_text : BOOLEAN, embedding : {<<9, 1, 0>>}]
EncodeOutcomes == {TRUE}

ItemLists == SeqsOf(SourceItems, BatchSizes)

Contents ==
    {[text |-> "short", tokens |-> 45, chars |-> 180],
     [text |-> "long", tokens |-> 1196, chars |-> 4800],
     [text |-> "huge", tokens |-> 2996, chars |-> 12000]}

\* new_message_content: the empty string (None) or a short message
NewContents == {None, [text |-> "short", tokens |-> 45, chars |-> 180]}

Configs ==
    [active_provider : {NoProvider, "openai"},
     active_model : {"gpt-4"},
     tiktoken_ok : BOOLEAN,
     provider_ok : BOOLEAN,
     config_ok : BOOLEAN]

\* a stored conversation: user and assistant messages in turn, the first of
\* them possibly the summary an earlier truncation left
Message(i, content, summary_first) ==
    IF i = 1 /\ summary_first
    THEN [id |-> "summary_old", role |-> "system", content |-> content,
          timestamp |-> i,
          metadata |-> [is_summary |-> TRUE, summarized_count |-> 2]]
    ELSE [id |-> i, role |-> IF i % 2 = 1 THEN "user" ELSE "assistant",
          content |-> content, timestamp |-> i, metadata |-> EmptyDict]

Conversations ==
    {[i \in DOMAIN c |-> Message(i, c[i], b)] :
        c \in SeqsOf(Contents, 0..MaxMsgs), b \in BOOLEAN}

(***************************************************************************)
(* State machine of the vector store                                       *)
(***************************************************************************)
Idle == [op |-> "idle"]

InitStore ==
    /\ disk = NoFiles
    /\ vector_store = load_index(Dimension, NoFiles)
    /\ ret = [op |-> "__init__"]
    /\ removed = {}
    /\ saved = Idle

InitIdleTrunc ==
    /\ conversation = Idle
    /\ config = Idle
    /\ truncated = Idle

\* no second RAGEngine is alive, no retrieval is under way
InitOneEngine == engines = Idle /\ request = Idle

\* no chat manager, configuration manager or session handler is in use
InitIdleApp == chats = Idle /\ configuration = Idle /\ history = Idle

Init == InitStore /\ InitIdleTrunc /\ InitOneEngine /\ InitIdleApp

Commit(r) ==
    /\ vector_store' = r.vs
    /\ disk' = r.dk

ItemIdsOf(metadata_list) == {metadata_list[i].item_id : i \in DOMAIN metadata_list}

AddEmbeddings(embeddings, metadata_list) ==
    /\ ntotal(vector_store.index) + Len(embeddings) <= MaxSlots
    /\ LET r == add_embeddings(vector_store, disk, embeddings, metadata_list, IoOk)
       IN  /\ Commit(r)
           /\ ret' = [op |-> "add_embeddings", raised |-> r.raised]
           /\ removed' = IF r.raised THEN removed
                         ELSE removed \ ItemIdsOf(metadata_list)
    /\ UNCHANGED <<truncVars, saved, engines, request, appVars>>

UpdateEmbedding(item_id, embedding) ==
    /\ ntotal(vector_store.index) + 1 <= MaxSlots
    /\ LET r == update_embedding(vector_store, disk, item_id, embedding,
                                 create_embedding_metadata(item_id), IoOk, IoOk)
       IN  /\ Commit(r)
           /\ ret' = [op |-> "update_embedding", raised |-> r.raised]
           /\ removed' = IF r.raised THEN removed ELSE removed \ {item_id}
    /\ UNCHANGED <<truncVars, saved, engines, request, appVars>>

RemoveEmbedding(item_id) ==
    /\ LET r == remove_embedding(vector_store, disk, item_id, IoOk)
       IN  /\ Commit(r)
           /\ ret' = [op |-> "remove_embedding", item_id |-> item_id,
                      total_before |-> get_stats(vector_store).total_embeddings,
                      total_after |-> get_stats(r.vs).total_embeddings]
    /\ removed' = removed \cup {item_id}
    /\ UNCHANGED <<truncVars, saved, engines, request, appVars>>

IndexItems(items, encode_ok) ==
    /\ ntotal(vector_store.index) + Len(items) <= MaxSlots
    /\ LET r == index_items(vector_store, disk, items, encode_ok, IoOk)
       IN  /\ Commit(r)
           /\ ret' = [op |-> "index_items", raised |-> r.raised]
           /\ removed' = IF r.vs = vector_store THEN removed
                         ELSE removed \ {r.vs.faiss_to_id[f] :
                                f \in DOMAIN r.vs.faiss_to_id
                                        \ DOMAIN vector_store.faiss_to_id}
    /\ UNCHANGED <<truncVars, saved, engines, request, appVars>>

Search(query_embedding, k, min_similarity) ==
    /\ ret' = [op |-> "search", query |-> query_embedding, k |-> k,
               min_similarity |-> min_similarity,
               results |-> search(vector_store, query_embedding, k,
                                  min_similarity)]
    /\ UNCHANGED <<vector_store, disk, removed>>
    /\ UNCHANGED <<truncVars, saved, engines, request, appVars>>

GetEmbeddingMetadata(item_id) ==
    /\ ret' = [op |-> "get_embedding_metadata", item_id |-> item_id,
               result |-> get_embedding_metadata(vector_store, item_id)]
    /\ UNCHANGED <<vector_store, disk, removed>>
    /\ UNCHANGED <<truncVars, saved, engines, request, appVars>>

\* a fresh VectorStore over the same directory (process restart)
Reload ==
    /\ vector_store' = load_index(Dimension, disk)
    /\ ret' = [op |-> "__init__"]
    /\ UNCHANGED <<disk, removed>>
    /\ UNCHANGED <<truncVars, saved, engines, request, appVars>>

Next ==
    \/ \E e \in Arrays, m \in MetadataLists : AddEmbeddings(e, m)
    \/ \E id \in ItemIds, v \in GoodVectors \cup BadVectors : UpdateEmbedding(id, v)
    \/ \E id \in ItemIds : RemoveEmbedding(id)
    \/ \E items \in ItemLists, ok \in EncodeOutcomes : IndexItems(items, ok)
    \/ \E q \in Queries, k \in Ks, m \in MinSimilarities : Search(q, k, m)
    \/ \E id \in ItemIds : GetEmbeddingMetadata(id)
    \/ Reload

Spec == Init /\ [][Next]_vars

(***************************************************************************)
(* Properties of the vector store (checked under Spec)                     *)
(***************************************************************************)
\* the records of item_id that are not marked deleted
ActiveRecords(vs, item_id) ==
    {f \in DOMAIN vs.metadata :
        vs.metadata[f].item_id = item_id /\ ~IsDeleted(vs.metadata[f])}

ItemIdsIn(results) == {results[i].item_id : i \in DOMAIN results}

\* C1 (soft-delete exclusion): once remove_embedding(id) has returned and
\* until id is added again, no search returns id, get_embedding_metadata(id)
\* is None, and the removal left total_embeddings as it was.
C1_SoftDeleteExclusion ==
    /\ \A id \in removed :
        /\ get_embedding_metadata(vector_store, id) = None
        /\ \A q \in Queries, k \in Ks, m \in MinSimilarities :
                id \notin ItemIdsIn(search(vector_store, q, k, m))
    /\ ret.op = "remove_embedding" => ret.total_after = ret.total_before

\* C2 (unique active slot per item): the store never holds two records of
\* one item_id that are both not marked deleted.
C2_UniqueActiveSlot ==
    \A id \in ItemIds : Cardinality(ActiveRecords(vector_store, id)) <= 1

\* C3 (search contract): search returns at most k results, in non-increasing
\* order of similarity, each of them a distinct record not marked deleted
\* with its inner product with the query as similarity, at least
\* min_similarity; a live record at or above the threshold is left out only
\* for k or for the 2k candidate window; an empty store gives [].
C3_SearchContract ==
    \A q \in Queries, k \in Ks, m \in MinSimilarities :
        LET hits == SearchHits(vector_store, q, k, m)
            results == search(vector_store, q, k, m)
            sim(f) == InnerProduct(vector_store.index.vectors[f + 1],
                                   NormalizeRow(q))
        IN  /\ Len(results) <= k
            /\ Len(results) = Len(hits)
            /\ \A i \in 1..(Len(results) - 1) :
                    results[i].similarity >= results[i + 1].similarity
            /\ \A i, j \in DOMAIN hits :
                    hits[i].faiss_id = hits[j].faiss_id => i = j
            /\ \A i \in DOMAIN hits :
                    LET f == hits[i].faiss_id
                    IN  /\ f \in DOMAIN vector_store.metadata
                        /\ ~IsDeleted(vector_store.metadata[f])
                        /\ results[i].item_id = vector_store.metadata[f].item_id
                        /\ results[i].similarity = sim(f)
                        /\ results[i].similarity >= m
            /\ (Len(results) < k /\ ntotal(vector_store.index) <= 2 * k)
                    => \A f \in DOMAIN vector_store.metadata :
                        (~IsDeleted(vector_store.metadata[f]) /\ sim(f) >= m)
                            => \E i \in DOMAIN hits : hits[i].faiss_id = f
            /\ (ntotal(vector_store.index) = 0 => results = <<>>)

\* C3 happens: a search with k = 2 returned two records in order, the second
\* one exactly at min_similarity
C3_Witness ==
    /\ ret.op = "search"
    /\ ret.k = 2
    /\ Len(ret.results) = 2
    /\ ret.results[1].similarity > ret.results[2].similarity
    /\ ret.results[2].similarity = ret.min_similarity

\* C8 (round-trip persistence): a fresh VectorStore over the same directory
\* has the same metadata (deleted flags included), the same mappings and
\* next_faiss_id, and answers every search alike.
C8_RoundTrip ==
    LET fresh == load_index(Dimension, disk)
    IN  /\ fresh.metadata = vector_store.metadata
        /\ fresh.id_to_faiss = vector_store.id_to_faiss
        /\ fresh.faiss_to_id = vector_store.faiss_to_id
        /\ fresh.next_faiss_id = vector_store.next_faiss_id
        /\ \A q \in Queries, k \in Ks, m \in MinSimilarities :
                search(fresh, q, k, m) = search(vector_store, q, k, m)

\* C8 happens: a store was loaded from files that hold an active and a
\* deleted record
C8_Witness ==
    /\ ret.op = "__init__"
    /\ DOMAIN vector_store.id_to_faiss # {}
    /\ \E f \in DOMAIN vector_store.metadata : IsDeleted(vector_store.metadata[f])
    /\ disk.mapping_file.file = "data"

\* C10 (precondition errors commit nothing): add_embeddings with a different
\* number of vectors and metadata entries, or with vectors of the wrong
\* length, raises and leaves the store and the files as they were.
C10_PreconditionErrors ==
    \A e \in Arrays, m \in MetadataLists :
        (Len(e) # Len(m) \/ \E i \in DOMAIN e : Len(e[i]) # Dimension)
            => LET r == add_embeddings(vector_store, disk, e, m, IoOk)
               IN  r.raised /\ r.vs = vector_store /\ r.dk = disk

\* C10 happens: add_embeddings raised on a store that holds embeddings
C10_Witness ==
    /\ ret.op = "add_embeddings"
    /\ ret.raised
    /\ ntotal(vector_store.index) > 0
    /\ disk.index_file.file = "data"

(***************************************************************************)
(* State machine of a store whose saves can fail: every _save_index may    *)
(* stop after some of its three writes (it then raises), and the process   *)
(* may be restarted at any time                                            *)
(***************************************************************************)
InitCrash ==
    /\ disk = NoFiles
    /\ vector_store = load_index(Dimension, NoFiles)
    /\ ret = [op |-> "__init__"]
    /\ removed = {}
    /\ saved = [prev |-> load_index(Dimension, NoFiles),
                next |-> load_index(Dimension, NoFiles),
                failures |-> 0]
    /\ InitIdleTrunc
    /\ InitOneEngine
    /\ InitIdleApp

\* the history of saves after a call that went from vs to r.vs under io
Saved(r, io) ==
    IF r.vs = vector_store THEN saved               \* _save_index not reached
    ELSE IF io = IoOk THEN [saved EXCEPT !.prev = r.vs, !.next = r.vs]
    ELSE [saved EXCEPT !.next = r.vs, !.failures = @ + 1]

\* the file system fails at most MaxFailures times
MayFail(io) == io = IoOk \/ saved.failures < MaxFailures

SaveAdd(embedding, item_id, io) ==
    /\ MayFail(io)
    /\ ntotal(vector_store.index) + 1 <= MaxSlots
    /\ LET r == add_embeddings(vector_store, disk, <<embedding>>,
                               <<create_embedding_metadata(item_id)>>, io)
       IN  /\ Commit(r)
           /\ ret' = [op |-> "add_embeddings", raised |-> r.raised]
           /\ saved' = Saved(r, io)
    /\ UNCHANGED <<removed, truncVars, engines, request, appVars>>

SaveRemove(item_id, io) ==
    /\ MayFail(io)
    /\ LET r == remove_embedding(vector_store, disk, item_id, io)
       IN  /\ Commit(r)
           /\ ret' = [op |-> "remove_embedding", raised |-> r.raised]
           /\ saved' = Saved(r, io)
    /\ UNCHANGED <<removed, truncVars, engines, request, appVars>>

Restart ==
    /\ vector_store' = load_index(Dimension, disk)
    /\ ret' = [op |-> "__init__"]
    /\ UNCHANGED <<disk, removed, saved, truncVars, engines, request, appVars>>

NextCrash ==
    \/ \E v \in GoodVectors, id \in ItemIds, io \in IoFailures \cup {IoOk} :
            SaveAdd(v, id, io)
    \/ \E id \in ItemIds, io \in IoFailures \cup {IoOk} : SaveRemove(id, io)
    \/ Restart

SpecCrash == InitCrash /\ [][NextCrash]_vars

\* C9 (atomic persistence): whatever was written of a save that failed or was
\* cut short, the next load observes the store of the last complete save or
\* the store of the save that was under way, never a mix of the two.
C9_AtomicPersistence ==
    ret.op = "__init__" => vector_store \in {saved.prev, saved.next}

(***************************************************************************)
(* State machine of the truncator: Init draws a stored conversation, a new *)
(* message and a configuration, TruncateIfNeeded applies the function      *)
(***************************************************************************)
InitTrunc ==
    /\ InitStore
    /\ InitOneEngine
    /\ InitIdleApp
    /\ conversation \in [messages : Conversations, new_message_content : NewContents]
    /\ config \in Configs
    /\ truncated = Idle

TruncateIfNeeded ==
    /\ truncated = Idle
    /\ truncated' = truncate_if_needed(conversation.messages,
                                       conversation.new_message_content, config)
    /\ UNCHANGED <<conversation, config, storeVars, engines, request, appVars>>

NextTrunc == TruncateIfNeeded

SpecTrunc == InitTrunc /\ [][NextTrunc]_vars

(***************************************************************************)
(* Properties of truncate_if_needed (checked under SpecTrunc)              *)
(***************************************************************************)
Returned == truncated # Idle

\* the token count the contract speaks of: content tokens plus 4 per message,
\* plus the new message
ContractTotal ==
    SumTokens(conversation.messages)
    + (IF conversation.new_message_content # None
       THEN conversation.new_message_content.tokens + 4 ELSE 0)

ContractAvailable == get_token_limit(config) - 1000 - 500

Range(q) == {q[i] : i \in DOMAIN q}

\* the input messages that are not in the returned list
Dropped == Range(conversation.messages) \ Range(truncated.list)

IsSummary(m) == Get(m.metadata, "is_summary", FALSE)

\* C4 (idempotent no-op): whenever the total token count of the messages and
\* the new message is at most available_tokens, truncate_if_needed returns the
\* input list itself: same messages, same order, no summary added.
C4_IdempotentNoOp ==
    (Returned /\ ContractTotal <= ContractAvailable)
        => (truncated.is_input /\ truncated.list = conversation.messages)

\* C4 happens: more than 4 messages whose total is exactly available_tokens
\* come back as they were
C4_Witness ==
    /\ Returned
    /\ config.tiktoken_ok
    /\ Len(conversation.messages) > min_keep_messages
    /\ ContractTotal = ContractAvailable
    /\ truncated.list = conversation.messages

\* C5 (floor invariant): for an input of at least 4 messages the returned list
\* ends with the last 4 input messages, whatever they cost.
C5_Floor ==
    (Returned /\ Len(conversation.messages) >= 4)
        => /\ Len(truncated.list) >= 4
           /\ LastN(truncated.list, 4) = LastN(conversation.messages, 4)

\* C5 happens: a truncation kept exactly the last 4 messages although they
\* alone cost more than available_tokens
C5_Witness ==
    /\ Returned
    /\ Len(conversation.messages) > 4
    /\ truncated.list = LastN(conversation.messages, 4)
    /\ SumTokens(truncated.list) > ContractAvailable

\* C6 (summary whenever messages are dropped): when the returned list lacks
\* at least one input message, it starts with one summary message (role
\* system, is_summary, summarized_count = number of dropped messages) and
\* continues with the kept recent messages.
C6_SummaryWhenDropped ==
    (Returned /\ Dropped # {})
        => /\ Len(truncated.list) >= 1
           /\ truncated.list[1].role = "system"
           /\ truncated.list[1] \notin Range(conversation.messages)
           /\ IsSummary(truncated.list[1])
           /\ truncated.list[1].metadata.summarized_count = Cardinality(Dropped)
           /\ Tail(truncated.list)
                = LastN(conversation.messages,
                        Len(conversation.messages) - Cardinality(Dropped))

\* C7 (result shape): the returned list is zero or one new summary message
\* followed by a contiguous suffix of the input, unmodified and in order.
C7_Shape ==
    Returned =>
        \E n \in 0..Len(conversation.messages) :
            \/ truncated.list = LastN(conversation.messages, n)
            \/ /\ Len(truncated.list) = n + 1
               /\ IsSummary(truncated.list[1])
               /\ truncated.list[1] \notin Range(conversation.messages)
               /\ Tail(truncated.list) = LastN(conversation.messages, n)

\* C7 happens: a summary followed by the last 4 of at least 5 messages
C7_Witness ==
    /\ Returned
    /\ Len(conversation.messages) >= 5
    /\ Len(truncated.list) = 5
    /\ IsSummary(truncated.list[1])
    /\ truncated.list[1].metadata.summarized_count
         = Len(conversation.messages) - 4
    /\ Tail(truncated.list) = LastN(conversation.messages, 4)

(***************************************************************************)
(* Loading from a directory one of whose files is damaged (checked under   *)
(* Spec: the directory of every reachable state, with one file deleted or  *)
(* made undecodable)                                                       *)
(***************************************************************************)
FileNames == {"index_file", "metadata_file", "mapping_file"}

\* the directory dk with file f missing (NoFile) or undecodable (Corrupt)
Damage(dk, f, how) == [dk EXCEPT ![f] = how]

\* a store as _create_new_index leaves it
IsFreshStore(vs) ==
    /\ ntotal(vs.index) = 0
    /\ vs.metadata = EmptyDict
    /\ vs.id_to_faiss = EmptyDict
    /\ vs.faiss_to_id = EmptyDict
    /\ vs.next_faiss_id = 0

\* C11 (load-failure fallback): when one of the three files is corrupt or
\* missing while the others exist, constructing a VectorStore yields a fresh
\* empty store: no vectors, empty metadata, empty mappings, next_faiss_id 0.
C11_LoadFailureFallback ==
    \A f \in FileNames, how \in {NoFile, Corrupt} :
        (\A g \in FileNames : disk[g].file = "data")
            => IsFreshStore(load_index(Dimension, Damage(disk, f, how)))

(***************************************************************************)
(* State machine of two RAGEngine objects alive together on one data       *)
(* directory: each constructs its own VectorStore (which loads the files), *)
(* then indexes one item or removes one, which saves the whole store       *)
(***************************************************************************)
Writers == {"w1", "w2"}

\* the item ids that have a record not marked deleted
ActiveIds(vs) == {id \in ItemIds : ActiveRecords(vs, id) # {}}

\* one source item with text
ItemOf(item_id) == [id |-> item_id, has_text |-> TRUE, embedding |-> <<9, 1, 0>>]

\* directories left by an earlier engine: nothing, or one indexed item
SeedDisks ==
    {NoFiles} \cup
    {index_items(load_index(Dimension, NoFiles), NoFiles, <<ItemOf(id)>>,
                 TRUE, IoOk).dk : id \in ItemIds}

InitWriters ==
    /\ disk \in SeedDisks
    /\ vector_store = load_index(Dimension, disk)
    /\ ret = [op |-> "__init__"]
    /\ removed = {}
    /\ saved = Idle
    /\ InitIdleTrunc
    /\ engines = [inst |-> [w \in Writers |-> [pc |-> "new", store |-> None]],
                  expected |-> ActiveIds(load_index(Dimension, disk))]
    /\ request = Idle
    /\ InitIdleApp

\* RAGEngine.__init__: VectorStore(...) loads the files
EngineLoad(w) ==
    /\ engines.inst[w].pc = "new"
    /\ engines' = [engines EXCEPT
                     !.inst[w] = [pc |-> "loaded",
                                  store |-> load_index(Dimension, disk)]]
    /\ ret' = [op |-> "RAGEngine", writer |-> w]
    /\ UNCHANGED <<vector_store, disk, removed, saved, truncVars, request, appVars>>

\* RAGEngine.index_items([item]) on the engine's own store
EngineIndexItem(w, item_id) ==
    /\ engines.inst[w].pc = "loaded"
    /\ ntotal(engines.inst[w].store.index) + 1 <= MaxSlots
    /\ LET vs == engines.inst[w].store
           r == index_items(vs, disk, <<ItemOf(item_id)>>, TRUE, IoOk)
       IN  /\ disk' = r.dk
           /\ engines' = [engines EXCEPT
                            !.inst[w] = [pc |-> "done", store |-> r.vs],
                            !.expected = @ \cup {item_id}]
           /\ ret' = [op |-> "index_items", writer |-> w, item_id |-> item_id]
    /\ UNCHANGED <<vector_store, removed, saved, truncVars, request, appVars>>

\* RAGEngine.remove_item_index(item_id) on the engine's own store
EngineRemoveItem(w, item_id) ==
    /\ engines.inst[w].pc = "loaded"
    /\ LET vs == engines.inst[w].store
           r == remove_embedding(vs, disk, item_id, IoOk)
       IN  /\ disk' = r.dk
           /\ engines' = [engines EXCEPT
                            !.inst[w] = [pc |-> "done", store |-> r.vs],
                            !.expected = IF r.vs = vs THEN @ ELSE @ \ {item_id}]
           /\ ret' = [op |-> "remove_item_index", writer |-> w,
                      item_id |-> item_id]
    /\ UNCHANGED <<vector_store, removed, saved, truncVars, request, appVars>>

NextWriters ==
    \/ \E w \in Writers : EngineLoad(w)
    \/ \E w \in Writers, id \in ItemIds : EngineIndexItem(w, id)
    \/ \E w \in Writers, id \in ItemIds : EngineRemoveItem(w, id)

SpecWriters == InitWriters /\ [][NextWriters]_vars

\* C12 (serialized writers): when both writers have finished, the persisted
\* store holds the effect of both mutations: the items indexed and not removed
\* since are active in it, and no removed item is.
C12_SerializedWriters ==
    (\A w \in Writers : engines.inst[w].pc = "done")
        => ActiveIds(load_index(Dimension, disk)) = engines.expected

(***************************************************************************)
(* Failures during truncate_if_needed (checked under SpecTrunc)            *)
(***************************************************************************)
\* the character estimate of the conversation: chars // 4
EstimatedTotal ==
    (SumChars(conversation.messages)
     + (IF conversation.new_message_content # None
        THEN conversation.new_message_content.chars ELSE 0)) \div 4

\* the returned list starts with a summary message made by this call whose
\* content is the placeholder
StartsWithPlaceholder ==
    /\ Len(truncated.list) >= 1
    /\ IsSummary(truncated.list[1])
    /\ truncated.list[1] \notin Range(conversation.messages)
    /\ truncated.list[1].content.text = "placeholder"

\* the provider was asked for a summary and failed
ProviderFailed ==
    /\ config.config_ok
    /\ config.active_provider # NoProvider
    /\ ~config.provider_ok
    /\ StartsWithPlaceholder

\* the configuration lookup failed while a summary was made
ConfigFailed == ~config.config_ok /\ StartsWithPlaceholder

\* the tokenizer failed in the budget check
TokenizerFailed == ~config.tiktoken_ok

OlderToSummarize ==
    /\ Returned
    /\ config.tiktoken_ok
    /\ ContractTotal > ContractAvailable
    /\ Len(conversation.messages) > min_keep_messages
    /\ LET n == RecentCount(conversation.messages, Len(conversation.messages),
                            0, ContractAvailable)
       IN  n >= min_keep_messages /\ n < Len(conversation.messages)

\* the LLM summary cannot be produced
NoLlmSummary ==
    \/ ~config.config_ok
    \/ config.active_provider = NoProvider
    \/ ~config.provider_ok

\* C14 (summary fallback): when older messages are summarized and the LLM
\* summary cannot be produced, the result starts with a system message with
\* is_summary and summarized_count = number of older messages whose content
\* is the placeholder naming that count and the first and last timestamps of
\* the older messages; nothing is raised.
C14_SummaryFallback ==
    (OlderToSummarize /\ NoLlmSummary) =>
        LET older == Len(conversation.messages) - (Len(truncated.list) - 1)
            s == truncated.list[1]
        IN  /\ ~truncated.raised
            /\ older >= 1
            /\ s.role = "system"
            /\ IsSummary(s)
            /\ s \notin Range(conversation.messages)
            /\ s.metadata.summarized_count = older
            /\ s.content.text = "placeholder"
            /\ s.content.count = older
            /\ s.content.first = conversation.messages[1].timestamp
            /\ s.content.last = conversation.messages[older].timestamp
            /\ Tail(truncated.list)
                 = LastN(conversation.messages, Len(truncated.list) - 1)

\* C14 happens: the provider call failed and the placeholder summarizes the
\* older messages
C14_Witness ==
    /\ OlderToSummarize
    /\ ProviderFailed
    /\ Len(truncated.list) = min_keep_messages + 1

\* C15 (tokenizer-independent truncation): without the tokenizer, a
\* conversation of more than 4 messages that exceeds the budget under the
\* chars / 4 estimate is truncated, not returned in full.
C15_TokenizerIndependent ==
    (Returned /\ TokenizerFailed
        /\ Len(conversation.messages) > min_keep_messages
        /\ EstimatedTotal > ContractAvailable)
        => truncated.list # conversation.messages

(***************************************************************************)
(* RAGEngine: index_items with a failing embedding model, update_item_index, *)
(* remove_item_index and bulk_reindex                                      *)
(***************************************************************************)
MaxEngineSlots == 3     \* slots of the index in the engine's state machine

\* the items the model fails to embed, by id
FailingSets == {{}, {"a"}}

\* the source items of the engine's state machine: a and b with text, and b
\* with no title, summary or content
EngineItems ==
    {item \in SourceItems : item.has_text \/ item.id = "b"}

EngineItemLists == SeqsOf(EngineItems, BatchSizes)

\* the try block of encode_batch covers the whole batch: one text the model
\* fails on makes it return zeros for every text
EncodeOk(vs, items, failing) ==
    LET todo == SelectNewItems(vs, items, 1, <<>>)
    IN  \A i \in DOMAIN todo : todo[i].id \notin failing

\* EmbeddingManager.encode_text: the embedding, or zeros when the model fails
encode_text(item, encode_ok) ==
    IF encode_ok THEN item.embedding ELSE [j \in 1..Dimension |-> 0]

\* RAGEngine.update_item_index; what the store raises is logged, not raised
update_item_index(vs, dk, item, encode_ok, io) ==
    IF ~item.has_text THEN [vs |-> vs, dk |-> dk, raised |-> FALSE]
    ELSE
        LET r == update_embedding(vs, dk, item.id, encode_text(item, encode_ok),
                                  create_embedding_metadata(item.id), io, io)
        IN  [vs |-> r.vs, dk |-> r.dk, raised |-> FALSE]

\* RAGEngine.remove_item_index; what the store raises is logged, not raised
remove_item_index(vs, dk, item_id, io) ==
    LET r == remove_embedding(vs, dk, item_id, io)
    IN  [vs |-> r.vs, dk |-> r.dk, raised |-> FALSE]

\* RAGEngine.bulk_reindex over all_items, the items of every source
bulk_reindex(vs, dk, force, all_items, failing, io) ==
    LET vs1 == IF force THEN create_new_index(vs) ELSE vs
        dk1 == IF force THEN save_index(vs1, dk, io) ELSE dk
    IN  IF force /\ SaveRaises(io)
        THEN [vs |-> vs1, dk |-> dk1, raised |-> TRUE]
        ELSE IF Len(all_items) = 0
        THEN [vs |-> vs1, dk |-> dk1, raised |-> FALSE]
        ELSE index_items(vs1, dk1, all_items,
                         EncodeOk(vs1, all_items, failing), io)

EngineIndexItems(items, failing) ==
    /\ ntotal(vector_store.index) + Len(items) <= MaxEngineSlots
    /\ LET r == index_items(vector_store, disk, items,
                            EncodeOk(vector_store, items, failing), IoOk)
       IN  /\ Commit(r)
           /\ ret' = [op |-> "index_items", items |-> items,
                      failing |-> failing, force |-> FALSE,
                      raised |-> r.raised]
    /\ UNCHANGED <<removed, saved, truncVars, engines, request, appVars>>

EngineUpdateItemIndex(item) ==
    /\ ntotal(vector_store.index) + 1 <= MaxEngineSlots
    /\ LET r == update_item_index(vector_store, disk, item, TRUE, IoOk)
       IN  /\ Commit(r)
           /\ ret' = [op |-> "update_item_index", item_id |-> item.id]
    /\ UNCHANGED <<removed, saved, truncVars, engines, request, appVars>>

EngineRemoveItemIndex(item_id) ==
    /\ LET r == remove_item_index(vector_store, disk, item_id, IoOk)
       IN  /\ Commit(r)
           /\ ret' = [op |-> "remove_item_index", item_id |-> item_id]
    /\ UNCHANGED <<removed, saved, truncVars, engines, request, appVars>>

BulkReindex(force, all_items, failing) ==
    /\ (IF force THEN 0 ELSE ntotal(vector_store.index)) + Len(all_items)
            <= MaxEngineSlots
    /\ LET r == bulk_reindex(vector_store, disk, force, all_items, failing, IoOk)
       IN  /\ Commit(r)
           /\ ret' = [op |-> "bulk_reindex", items |-> all_items,
                      failing |-> failing, force |-> force,
                      raised |-> r.raised]
    /\ UNCHANGED <<removed, saved, truncVars, engines, request, appVars>>

NextEngine ==
    \/ \E items \in EngineItemLists, failing \in FailingSets :
            EngineIndexItems(items, failing)
    \/ \E item \in EngineItems : EngineUpdateItemIndex(item)
    \/ \E id \in ItemIds : EngineRemoveItemIndex(id)
    \/ \E force \in BOOLEAN, items \in EngineItemLists, failing \in FailingSets :
            BulkReindex(force, items, failing)

SpecEngine == Init /\ [][NextEngine]_vars

\* C16 (index_items is idempotent): right after index_items(items), a second
\* index_items(items) adds no slot and leaves the store in memory and the
\* files as they are, whether or not the model fails.
C16_IndexItemsIdempotent ==
    ret.op = "index_items" =>
        \A failing \in FailingSets :
            LET r == index_items(vector_store, disk, ret.items,
                                 EncodeOk(vector_store, ret.items, failing), IoOk)
            IN  /\ ~r.raised
                /\ r.vs = vector_store
                /\ r.dk = disk

\* C16 happens: index_items has indexed two items
C16_Witness ==
    /\ ret.op = "index_items"
    /\ Len(ret.items) = 2
    /\ ret.items[1].id # ret.items[2].id
    /\ ntotal(vector_store.index) = 2
    /\ \A i \in DOMAIN ret.items :
            get_embedding_metadata(vector_store, ret.items[i].id) # None

\* the items a call of index_items or bulk_reindex recorded in r embeds, given
\* the store vs it started from
TodoOf(vs, r) ==
    SelectNewItems(IF r.op = "bulk_reindex" /\ r.force
                   THEN create_new_index(vs) ELSE vs,
                   r.items, 1, <<>>)

\* a search with the item's own embedding and the default threshold returns it
Retrievable(vs, item) ==
    item.id \in ItemIdsIn(search(vs, item.embedding, MaxEngineSlots, 300))

\* C17 (partial success in bulk indexing): when the model fails for some of
\* the items index_items or bulk_reindex embeds, the call does not raise, the
\* items that can be embedded are in the store and retrievable afterwards,
\* and the failing items are left unindexed.
C17_PartialSuccess ==
    [][LET todo == TodoOf(vector_store, ret')
       IN  (/\ ret'.op \in {"index_items", "bulk_reindex"}
            /\ \E i \in DOMAIN todo : todo[i].id \in ret'.failing)
            => /\ ~ret'.raised
               /\ \A i \in DOMAIN todo :
                    IF todo[i].id \in ret'.failing
                    THEN get_embedding_metadata(vector_store', todo[i].id) = None
                    ELSE Retrievable(vector_store', todo[i])]_vars

HasText(item) == item.has_text

\* C18 (bulk_reindex): with force the store afterwards has no deleted record
\* and holds only slots made by this call, one for each known item with text,
\* in their order; without force every existing slot, deleted flag and mapping
\* is unchanged and the slots added belong to items that had no active record.
C18_BulkReindex ==
    [][(ret'.op = "bulk_reindex" /\ ~ret'.raised) =>
        LET old == vector_store
            new == vector_store'
            texts == SelectSeq(ret'.items, HasText)
        IN  IF ret'.force
            THEN /\ ntotal(new.index) = Len(texts)
                 /\ DOMAIN new.metadata = 0..(Len(texts) - 1)
                 /\ \A i \in DOMAIN texts :
                        /\ new.metadata[i - 1].item_id = texts[i].id
                        /\ ~IsDeleted(new.metadata[i - 1])
            ELSE /\ DOMAIN old.metadata \subseteq DOMAIN new.metadata
                 /\ \A f \in DOMAIN old.metadata :
                        new.metadata[f] = old.metadata[f]
                 /\ SubSeq(new.index.vectors, 1, ntotal(old.index))
                        = old.index.vectors
                 /\ \A id \in DOMAIN old.id_to_faiss :
                        /\ id \in DOMAIN new.id_to_faiss
                        /\ new.id_to_faiss[id] = old.id_to_faiss[id]
                 /\ \A f \in DOMAIN new.metadata \ DOMAIN old.metadata :
                        ActiveRecords(old, new.metadata[f].item_id) = {}
      ]_vars

(***************************************************************************)
(* RetrievalEngine.retrieve_context                                        *)
(***************************************************************************)
\* a query is its text, a sequence of characters
Whitespace == {" ", "\t", "\n"}

RECURSIVE LStrip(_)
LStrip(s) ==
    IF Len(s) > 0 /\ Head(s) \in Whitespace THEN LStrip(Tail(s)) ELSE s

RECURSIVE RStrip(_)
RStrip(s) ==
    IF Len(s) > 0 /\ s[Len(s)] \in Whitespace
    THEN RStrip(SubSeq(s, 1, Len(s) - 1)) ELSE s

\* str.strip()
Strip(s) == RStrip(LStrip(s))

QueryTexts == {<<>>, <<" ", "\n">>, <<"x">>, <<" ", "y">>}

\* the embedding the model computes for a text
ModelEmbedding(text) ==
    IF \E i \in DOMAIN text : text[i] = "x" THEN <<1, 0, 0>> ELSE <<0, 2, 0>>

\* the embedding model: it works, encode raises, or it cannot be loaded
ModelStates == {"ok", "encode_fails", "load_fails"}

\* the source of an item (item.raw['source_id']) and the embedding of its text
SourceOf(item_id) == IF item_id = "a" THEN "s1" ELSE "s2"
ItemVector(item_id) == IF item_id = "a" THEN <<2, 0, 0>> ELSE <<9, 1, 0>>

\* the metadata index_items stores for an item: create_embedding_metadata
\* with the item's source_id
item_metadata(item_id) ==
    [item_id |-> item_id, source_id |-> SourceOf(item_id)]

\* source_filter: None, the empty list, or a list of source ids (as a set)
NoFilter == None
SourceFilters == {NoFilter, [list |-> {}], [list |-> {"s1"}]}

\* Python truth value of source_filter: None and [] are false
FilterGiven(source_filter) ==
    source_filter # NoFilter /\ source_filter.list # {}

\* the ids of the items the SourceManager knows
KnownSets == {{}, {"a"}, {"a", "b"}}

MaxItemsValues == {1, 2}
RetrievalMinSimilarities == {300, 994}

RECURSIVE enrich_results(_, _)
\* RetrievalEngine._enrich_results: results whose item the sources no longer
\* hold are dropped
enrich_results(results, known) ==
    IF Len(results) = 0 THEN <<>>
    ELSE
        LET result == Head(results)
            item_id == result.item_id
            rest == enrich_results(Tail(results), known)
        IN  IF "item_id" \notin DOMAIN result THEN rest
            ELSE IF item_id \notin known THEN rest     \* _get_item_data: None
            ELSE <<[item_id |-> item_id,
                    similarity |-> Get(result, "similarity", 0),
                    source_id |-> Get(result, "source_id", None)]>> \o rest

\* retrieve_context without the test of the query: a blank query goes to
\* encode_text and to the search like any other
retrieve_context_encode_first(vs, text, max_items, min_similarity, source_filter, known, model) ==
    IF model = "load_fails"
    THEN [results |-> <<>>, calls |-> <<"_load_model">>]
    ELSE
        LET query_embedding ==
                IF model = "ok" /\ Len(Strip(text)) > 0 THEN ModelEmbedding(text)
                ELSE [j \in 1..Dimension |-> 0]
            found == search(vs, query_embedding, max_items * 2, min_similarity)
            InFilter(r) == /\ "source_id" \in DOMAIN r
                           /\ r.source_id \in source_filter.list
            filtered ==
                IF FilterGiven(source_filter)
                THEN SelectSeq(found, InFilter) ELSE found
            limited == SubSeq(filtered, 1, Min(max_items, Len(filtered)))
        IN  [results |-> enrich_results(limited, known),
             calls |-> <<"_load_model", "encode_text", "search">>]

\* retrieve_context without results[:max_items]
retrieve_context_no_limit(vs, text, max_items, min_similarity, source_filter, known, model) ==
    LET query_embedding ==
            IF model = "ok" THEN ModelEmbedding(text)
            ELSE [j \in 1..Dimension |-> 0]
        found == search(vs, query_embedding, max_items * 2, min_similarity)
    IN  [results |-> enrich_results(found, known),
         calls |-> <<"_load_model", "encode_text", "search">>]

\* RetrievalEngine.retrieve_context: the list returned and the calls made to
\* the embedding manager and the vector store
retrieve_context(vs, text, max_items, min_similarity, source_filter, known, model) ==
    IF Len(text) = 0 \/ Len(Strip(text)) = 0
    THEN [results |-> <<>>, calls |-> <<>>]
    ELSE IF model = "load_fails"              \* encode_text raises: return []
    THEN [results |-> <<>>, calls |-> <<"_load_model">>]
    ELSE
        LET query_embedding ==
                IF model = "ok" THEN ModelEmbedding(text)
                ELSE [j \in 1..Dimension |-> 0]
            found == search(vs, query_embedding, max_items * 2, min_similarity)
            InFilter(r) == /\ "source_id" \in DOMAIN r
                           /\ r.source_id \in source_filter.list
            filtered ==
                IF FilterGiven(source_filter)
                THEN SelectSeq(found, InFilter) ELSE found
            limited == SubSeq(filtered, 1, Min(max_items, Len(filtered)))
        IN  [results |-> enrich_results(limited, known),
             calls |-> <<"_load_model", "encode_text", "search">>]

\* RAGEngine.index_items for one item of a source, as the writer of the files
IndexSourced(item_id) ==
    /\ ntotal(vector_store.index) + 1 <= MaxSlots
    /\ LET r == add_embeddings(vector_store, disk, <<ItemVector(item_id)>>,
                               <<item_metadata(item_id)>>, IoOk)
       IN  /\ Commit(r)
           /\ ret' = [op |-> "index_items", item_id |-> item_id]
    /\ UNCHANGED <<removed, saved, truncVars, engines, request, appVars>>

\* the calls of retrieve_context: the arguments, the items the sources hold
\* and the state of the embedding model
Requests ==
    [query : QueryTexts, max_items : MaxItemsValues,
     min_similarity : RetrievalMinSimilarities,
     source_filter : SourceFilters, known : KnownSets, model : ModelStates]

InitRetrieval ==
    /\ InitStore
    /\ InitIdleTrunc
    /\ engines = Idle
    /\ request \in Requests
    /\ InitIdleApp

\* a request: a new RetrievalEngine loads the files and retrieves
RetrieveContext ==
    /\ LET r == retrieve_context(load_index(Dimension, disk), request.query,
                                 request.max_items, request.min_similarity,
                                 request.source_filter, request.known,
                                 request.model)
       IN  ret' = [op |-> "retrieve_context", query |-> request.query,
                   max_items |-> request.max_items,
                   min_similarity |-> request.min_similarity,
                   source_filter |-> request.source_filter,
                   known |-> request.known, model |-> request.model,
                   results |-> r.results, calls |-> r.calls]
    /\ UNCHANGED <<vector_store, disk, removed, saved, truncVars, engines, request, appVars>>

NextRetrieval ==
    \/ \E id \in ItemIds : IndexSourced(id)
    \/ \E id \in ItemIds : RemoveEmbedding(id)
    \/ RetrieveContext

SpecRetrieval == InitRetrieval /\ [][NextRetrieval]_vars

\* C19 (empty query handling): retrieve_context with an empty or
\* whitespace-only query returns [] and makes no call: the model is not
\* loaded, encode_text is not invoked and the store is not searched.
C19_EmptyQuery ==
    (ret.op = "retrieve_context"
        /\ \A i \in DOMAIN ret.query : ret.query[i] \in Whitespace)
        => (ret.results = <<>> /\ ret.calls = <<>>)

\* C19 happens: a whitespace-only query met a store that holds an item the
\* sources know
C19_Witness ==
    /\ ret.op = "retrieve_context"
    /\ Len(ret.query) > 0
    /\ \A i \in DOMAIN ret.query : ret.query[i] \in Whitespace
    /\ ActiveIds(vector_store) \cap ret.known # {}
    /\ ret.results = <<>>

\* C20 (retrieve_context contract): at most max_items results, in
\* non-increasing order of similarity, each at least min_similarity, each of a
\* source in source_filter when a (non-empty) filter is given, each an item
\* the sources hold; hits whose item is gone are dropped without error.
C20_RetrieveContract ==
    ret.op = "retrieve_context" =>
        /\ Len(ret.results) <= ret.max_items
        /\ \A i \in 1..(Len(ret.results) - 1) :
                ret.results[i].similarity >= ret.results[i + 1].similarity
        /\ \A i \in DOMAIN ret.results :
                /\ ret.results[i].similarity >= ret.min_similarity
                /\ FilterGiven(ret.source_filter)
                        => ret.results[i].source_id \in ret.source_filter.list
                /\ ret.results[i].item_id \in ret.known

\* C20 happens: two items matched, the filter kept one and it was returned,
\* or a hit whose item is gone was dropped
C20_Witness ==
    /\ ret.op = "retrieve_context"
    /\ ret.model = "ok"
    /\ ret.max_items = 1
    /\ ActiveIds(vector_store) = ItemIds
    /\ ret.known = {"a"}
    /\ Len(ret.results) = 1
    /\ ret.results[1].item_id = "a"

(***************************************************************************)
(* RetrievalEngine.create_context_prompt                                   *)
(***************************************************************************)
\* a retrieved item, as far as the prompt depends on it: the lengths of its
\* title and of its content (0: the field is empty)
PromptItems ==
    [item_id : ItemIds, title_len : {0, 60}, content_len : {0, 300}]

PromptItemLists == SeqsOf(PromptItems, 0..2) \cup
    {<<[item_id |-> "a", title_len |-> 60, content_len |-> 0],
       [item_id |-> "b", title_len |-> 60, content_len |-> 0],
       [item_id |-> "a", title_len |-> 0, content_len |-> 0]>>}

PromptQueries == {"q1", "q2"}
MaxContextLengths == {60, 200, 400}

\* len("Based on the following relevant information:" + "\n" + "")
HeaderLength == 45
\* len("Source 1 (similarity: 0.85):"), len("\nTitle: "), len("\nContent: ")
SourceLineLength == 28
TitleLabelLength == 8
ContentLabelLength == 10

\* the block of item i: the characters of content it shows and its length
item_summary(item, max_context_length, current_length) ==
    LET head == SourceLineLength
                + (IF item.title_len > 0 THEN TitleLabelLength + item.title_len
                   ELSE 0)
        remaining_space == max_context_length - current_length - head - 100
        shown == IF item.content_len > 0 /\ remaining_space > 100
                 THEN Min(item.content_len, remaining_space) ELSE 0
        content_part ==
            IF item.content_len > 0 /\ remaining_space > 100
            THEN ContentLabelLength + shown
                 + (IF item.content_len > remaining_space THEN 3 ELSE 0)
            ELSE 0
    IN  [kind |-> "block", item_id |-> item.item_id, shown |-> shown,
         length |-> head + content_part + 1]

RECURSIVE PromptLoop_no_break(_, _, _, _, _)
\* the loop over the items that skips a block that does not fit and goes on
PromptLoop_no_break(retrieved_items, i, max_context_length, current_length, context_parts) ==
    IF i > Len(retrieved_items) THEN context_parts
    ELSE
        LET block == item_summary(retrieved_items[i], max_context_length,
                                  current_length)
        IN  IF current_length + block.length > max_context_length
            THEN PromptLoop_no_break(retrieved_items, i + 1, max_context_length,
                                     current_length, context_parts)
            ELSE PromptLoop_no_break(retrieved_items, i + 1, max_context_length,
                            current_length + block.length,
                            Append(context_parts, block @@ [index |-> i]))

RECURSIVE PromptLoop(_, _, _, _, _)
\* the loop of create_context_prompt over enumerate(retrieved_items, 1)
PromptLoop(retrieved_items, i, max_context_length, current_length, context_parts) ==
    IF i > Len(retrieved_items) THEN context_parts
    ELSE
        LET block == item_summary(retrieved_items[i], max_context_length,
                                  current_length)
        IN  IF current_length + block.length > max_context_length
            THEN context_parts                                   \* break
            ELSE PromptLoop(retrieved_items, i + 1, max_context_length,
                            current_length + block.length,
                            Append(context_parts, block @@ [index |-> i]))

\* RetrievalEngine.create_context_prompt: the parts joined by "\n"; the empty
\* sequence is the empty string
create_context_prompt(query, retrieved_items, max_context_length) ==
    IF Len(retrieved_items) = 0 THEN <<>>
    ELSE PromptLoop(retrieved_items, 1, max_context_length, HeaderLength,
                    <<[kind |-> "header"], [kind |-> "blank"]>>)
         \o <<[kind |-> "query", query |-> query], [kind |-> "blank"]>>

InitPrompt ==
    /\ InitStore
    /\ InitIdleTrunc
    /\ engines = Idle
    /\ request \in [query : PromptQueries, retrieved_items : PromptItemLists,
                    max_context_length : MaxContextLengths]
    /\ InitIdleApp

CreateContextPrompt ==
    /\ ret' = [op |-> "create_context_prompt",
               result |-> create_context_prompt(request.query,
                                                request.retrieved_items,
                                                request.max_context_length)]
    /\ UNCHANGED <<vector_store, disk, removed, saved, truncVars, engines, request, appVars>>

NextPrompt == CreateContextPrompt

SpecPrompt == InitPrompt /\ [][NextPrompt]_vars

\* the positions of the item blocks and of the query line in a prompt
BlockPositions(prompt) == {p \in DOMAIN prompt : prompt[p].kind = "block"}
QueryPositions(prompt) ==
    {p \in DOMAIN prompt : prompt[p].kind = "query"
                            /\ prompt[p].query = request.query}

RECURSIVE BlocksLength(_)
\* current_length after the blocks, without the header
BlocksLength(blocks) ==
    IF Len(blocks) = 0 THEN 0
    ELSE Head(blocks).length + BlocksLength(Tail(blocks))

\* the blocks are items 1..n of the input in input order, and item n + 1, if
\* there is one, does not fit the budget left after them
BlocksArePrefix(prompt) ==
    LET blocks == SelectSeq(prompt, LAMBDA part : part.kind = "block")
        used == HeaderLength + BlocksLength(blocks)
    IN  /\ Len(blocks) <= Len(request.retrieved_items)
        /\ \A i \in DOMAIN blocks :
                /\ blocks[i].index = i
                /\ blocks[i].item_id = request.retrieved_items[i].item_id
        /\ Len(blocks) < Len(request.retrieved_items) =>
                used + item_summary(request.retrieved_items[Len(blocks) + 1],
                                    request.max_context_length, used).length
                    > request.max_context_length

\* C21 as stated: for every query, every list of items (the empty list
\* included) and every max_context_length the prompt has the line
\* 'Query: <query>' after all item blocks, and the blocks are the items in
\* input order up to the first that does not fit.
C21_QueryAlwaysAppended ==
    ret.op = "create_context_prompt" =>
        /\ QueryPositions(ret.result) # {}
        /\ \A q \in QueryPositions(ret.result), b \in BlockPositions(ret.result) :
                b < q
        /\ BlocksArePrefix(ret.result)

\* C21 amended: the same for every non-empty list of items; for the empty
\* list the result is the empty string.
C21_QueryAppendedUnlessEmpty ==
    ret.op = "create_context_prompt" =>
        IF Len(request.retrieved_items) = 0 THEN ret.result = <<>>
        ELSE /\ QueryPositions(ret.result) # {}
             /\ \A q \in QueryPositions(ret.result),
                   b \in BlockPositions(ret.result) : b < q
             /\ BlocksArePrefix(ret.result)

\* C21 happens: three items, the second did not fit and the third, which
\* would have fitted, was not added
C21_Witness ==
    /\ ret.op = "create_context_prompt"
    /\ Len(request.retrieved_items) = 3
    /\ Cardinality(BlockPositions(ret.result)) = 1
    /\ request.retrieved_items[3].title_len = 0
    /\ QueryPositions(ret.result) # {}

(***************************************************************************)
(* ChatManager: sessions as directories under chats_dir                    *)
(***************************************************************************)
SessionIds == {"s1", "s2", "s3"}

\* chats_dir/<id> exists for the ids of active, chats_dir/archives/<id> for
\* those of archived; handlers is the domain of _session_handlers
NewChatManager == [active |-> {}, archived |-> {}, handlers |-> {}]

\* ChatManager.list_sessions, the ids listed
list_sessions(cm, archived) == IF archived THEN cm.archived ELSE cm.active

\* ChatManager.get_session: the manager afterwards and the session or None
get_session(cm, session_id) ==
    IF session_id \in cm.handlers
    THEN [cm |-> cm,
          session |-> IF session_id \in cm.active
                      THEN [id |-> session_id] ELSE None]
    ELSE IF session_id \in cm.active
    THEN [cm |-> [cm EXCEPT !.handlers = @ \cup {session_id}],
          session |-> [id |-> session_id]]
    ELSE [cm |-> cm, session |-> None]

\* ChatManager.create_session
create_session(cm, session_id) ==
    [cm EXCEPT !.active = @ \cup {session_id},
               !.handlers = @ \cup {session_id}]

\* ChatManager.archive_session: the directory moves under archives
archive_session(cm, session_id) ==
    IF session_id \in cm.active
    THEN [cm |-> [active |-> cm.active \ {session_id},
                  archived |-> cm.archived \cup {session_id},
                  handlers |-> cm.handlers \ {session_id}],
          success |-> TRUE]
    ELSE [cm |-> cm, success |-> FALSE]

\* ChatManager.delete_session: only chats_dir/<id> is looked at
delete_session(cm, session_id) ==
    IF session_id \in cm.active
    THEN [cm |-> [cm EXCEPT !.active = @ \ {session_id},
                            !.handlers = @ \ {session_id}],
          success |-> TRUE]
    ELSE [cm |-> cm, success |-> FALSE]

\* the endpoints: 404 when the manager reports no success
StatusOf(success) == IF success THEN 200 ELSE 404

InitChats ==
    /\ InitStore
    /\ InitIdleTrunc
    /\ InitOneEngine
    /\ chats = NewChatManager
    /\ configuration = Idle
    /\ history = Idle

ChatFrame ==
    UNCHANGED <<vector_store, disk, removed, saved, truncVars, engines,
                request, configuration, history>>

\* POST /sessions: uuid4 gives an id no directory has
CreateSession(session_id) ==
    /\ session_id \notin chats.active \cup chats.archived
    /\ chats' = create_session(chats, session_id)
    /\ ret' = [op |-> "create_session", session_id |-> session_id,
               status |-> 200]
    /\ ChatFrame

\* GET /sessions/{id}
GetSession(session_id) ==
    LET r == get_session(chats, session_id)
    IN  /\ chats' = r.cm
        /\ ret' = [op |-> "get_session", session_id |-> session_id,
                   status |-> StatusOf(r.session # None)]
        /\ ChatFrame

\* POST /sessions/{id}/archive
ArchiveSession(session_id) ==
    LET r == archive_session(chats, session_id)
    IN  /\ chats' = r.cm
        /\ ret' = [op |-> "archive_session", session_id |-> session_id,
                   status |-> StatusOf(r.success)]
        /\ ChatFrame

\* DELETE /sessions/{id}
DeleteSession(session_id) ==
    LET r == delete_session(chats, session_id)
    IN  /\ chats' = r.cm
        /\ ret' = [op |-> "delete_session", session_id |-> session_id,
                   status |-> StatusOf(r.success)]
        /\ ChatFrame

\* the server restarts: a new ChatManager over the same directories
RestartChats ==
    /\ chats' = [chats EXCEPT !.handlers = {}]
    /\ ret' = [op |-> "__init__"]
    /\ ChatFrame

NextChats ==
    \/ \E id \in SessionIds : CreateSession(id)
    \/ \E id \in SessionIds : GetSession(id)
    \/ \E id \in SessionIds : ArchiveSession(id)
    \/ \E id \in SessionIds : DeleteSession(id)
    \/ RestartChats

SpecChats == InitChats /\ [][NextChats]_vars

\* C22 (an archived session can be deleted): a delete_session(id) of a
\* session that archive_session(id) moved to the archives answers 200, and
\* afterwards the id is listed neither as active nor as archived and
\* get_session(id) finds nothing.
C22_DeleteArchived ==
    [][(ret'.op = "delete_session" /\ ret'.session_id \in chats.archived)
        => /\ ret'.status = 200
           /\ ret'.session_id \notin list_sessions(chats', FALSE)
           /\ ret'.session_id \notin list_sessions(chats', TRUE)
           /\ get_session(chats', ret'.session_id).session = None]_vars

(***************************************************************************)
(* ConfigManager: the providers of the configuration                       *)
(***************************************************************************)
ProviderIds == {"openai", "anthropic", "local"}
ModelIds == {None, [id |-> "m1"]}

\* ConfigModel(): providers is a dict, kept as the sequence of its keys in
\* insertion order; active_provider is None or [id |-> key]
NewConfigModel ==
    [providers |-> <<>>, active_provider |-> None, active_model |-> None]

ProviderKeys(cfg) == {cfg.providers[i] : i \in DOMAIN cfg.providers}

\* del self.config.providers[provider_id]
DelKey(keys, provider_id) == SelectSeq(keys, LAMBDA k : k # provider_id)

\* ConfigManager.add_provider; encrypt_ok: _encrypt_api_key does not raise;
\* save_ok: save_config does not raise
add_provider(cfg, provider_id, encrypt_ok, save_ok) ==
    IF provider_id \in ProviderKeys(cfg) \/ ~encrypt_ok
    THEN [cfg |-> cfg, raised |-> TRUE]
    ELSE [cfg |-> [cfg EXCEPT !.providers = Append(@, provider_id),
                              !.active_provider =
                                  IF @ = None THEN [id |-> provider_id] ELSE @],
          raised |-> ~save_ok]

\* remove_provider that leaves active_provider as it is
remove_provider_keep_active(cfg, provider_id, save_ok) ==
    IF provider_id \notin ProviderKeys(cfg)
    THEN [cfg |-> cfg, raised |-> TRUE]
    ELSE [cfg |-> [cfg EXCEPT !.providers = DelKey(@, provider_id)],
          raised |-> ~save_ok]

\* ConfigManager.remove_provider
remove_provider(cfg, provider_id, save_ok) ==
    IF provider_id \notin ProviderKeys(cfg)
    THEN [cfg |-> cfg, raised |-> TRUE]
    ELSE
        LET remaining_providers == DelKey(cfg.providers, provider_id)
        IN  [cfg |->
                IF cfg.active_provider = [id |-> provider_id]
                THEN [providers |-> remaining_providers,
                      active_provider |->
                          IF Len(remaining_providers) > 0
                          THEN [id |-> remaining_providers[1]] ELSE None,
                      active_model |-> None]
                ELSE [cfg EXCEPT !.providers = remaining_providers],
             raised |-> ~save_ok]

\* ConfigManager.set_active_provider
set_active_provider(cfg, provider_id, model_id, save_ok) ==
    IF provider_id \notin ProviderKeys(cfg)
    THEN [cfg |-> cfg, raised |-> TRUE]
    ELSE [cfg |-> [cfg EXCEPT !.active_provider = [id |-> provider_id],
                              !.active_model = model_id],
          raised |-> ~save_ok]

InitConfig ==
    /\ InitStore
    /\ InitIdleTrunc
    /\ InitOneEngine
    /\ chats = Idle
    /\ configuration = NewConfigModel
    /\ history = Idle

ConfigFrame ==
    UNCHANGED <<vector_store, disk, removed, saved, truncVars, engines,
                request, chats, history>>

AddProvider(provider_id, encrypt_ok, save_ok) ==
    LET r == add_provider(configuration, provider_id, encrypt_ok, save_ok)
    IN  /\ configuration' = r.cfg
        /\ ret' = [op |-> "add_provider", provider_id |-> provider_id,
                   raised |-> r.raised]
        /\ ConfigFrame

RemoveProvider(provider_id, save_ok) ==
    LET r == remove_provider(configuration, provider_id, save_ok)
    IN  /\ configuration' = r.cfg
        /\ ret' = [op |-> "remove_provider", provider_id |-> provider_id,
                   raised |-> r.raised]
        /\ ConfigFrame

SetActiveProvider(provider_id, model_id, save_ok) ==
    LET r == set_active_provider(configuration, provider_id, model_id, save_ok)
    IN  /\ configuration' = r.cfg
        /\ ret' = [op |-> "set_active_provider", provider_id |-> provider_id,
                   raised |-> r.raised]
        /\ ConfigFrame

NextConfig ==
    \/ \E id \in ProviderIds, encrypt_ok, save_ok \in BOOLEAN :
            AddProvider(id, encrypt_ok, save_ok)
    \/ \E id \in ProviderIds, save_ok \in BOOLEAN : RemoveProvider(id, save_ok)
    \/ \E id \in ProviderIds, model_id \in ModelIds, save_ok \in BOOLEAN :
            SetActiveProvider(id, model_id, save_ok)

SpecConfig == InitConfig /\ [][NextConfig]_vars

\* C23 (active provider validity): active_provider is always None or a key of
\* providers; an add_provider that adds to a configuration with no active
\* provider makes the added provider active; a remove_provider of the active
\* provider makes a remaining provider active, or None when none is left,
\* and clears active_model.
C23_ActiveProviderValid ==
    /\ [](configuration.active_provider = None
            \/ configuration.active_provider.id \in ProviderKeys(configuration))
    /\ [][/\ (/\ ret'.op = "add_provider"
              /\ ProviderKeys(configuration') # ProviderKeys(configuration)
              /\ configuration.active_provider = None)
                => configuration'.active_provider = [id |-> ret'.provider_id]
          /\ (/\ ret'.op = "remove_provider"
              /\ ProviderKeys(configuration') # ProviderKeys(configuration)
              /\ configuration.active_provider = [id |-> ret'.provider_id])
                => /\ configuration'.active_model = None
                   /\ IF ProviderKeys(configuration') = {}
                      THEN configuration'.active_provider = None
                      ELSE /\ configuration'.active_provider # None
                           /\ configuration'.active_provider.id
                                \in ProviderKeys(configuration')
         ]_vars

\* C23 happens: the active provider, with a model set, was removed while
\* another provider remained, and that one is active now
C23_Witness ==
    /\ ret.op = "remove_provider"
    /\ ret.provider_id \notin ProviderKeys(configuration)
    /\ Len(configuration.providers) = 2
    /\ configuration.active_provider = [id |-> configuration.providers[1]]
    /\ configuration.active_model = None

(***************************************************************************)
(* The recent messages kept by a truncation (checked under SpecTrunc)      *)
(***************************************************************************)
\* the suffixes of the input that cost at most 0.7 * available_tokens, by
\* their lengths
SuffixesWithinBudget ==
    {n \in 0..Len(conversation.messages) :
        10 * SumTokens(LastN(conversation.messages, n)) <= 7 * ContractAvailable}

LongestSuffixWithinBudget ==
    CHOOSE n \in SuffixesWithinBudget : \A m \in SuffixesWithinBudget : m <= n

\* this call made a summary message
SummaryProduced ==
    /\ Len(truncated.list) >= 1
    /\ IsSummary(truncated.list[1])
    /\ truncated.list[1] \notin Range(conversation.messages)

\* the messages of the input the returned list keeps
RecentKept ==
    IF SummaryProduced THEN Tail(truncated.list) ELSE truncated.list

\* C24 (recent-set selection): for an over-budget conversation of more than 4
\* messages whose tokens are counted, the messages kept are the longest
\* suffix of the input costing at most 0.7 * available_tokens (content tokens
\* + 4 per message), or the last 4 messages when that suffix has fewer than
\* 4; when a summary is produced the kept messages cost at most
\* 0.7 * available_tokens.
C24_RecentSet ==
    (Returned /\ config.tiktoken_ok
        /\ ContractTotal > ContractAvailable
        /\ Len(conversation.messages) > 4)
        => /\ RecentKept =
                LastN(conversation.messages,
                      IF LongestSuffixWithinBudget < 4 THEN 4
                      ELSE LongestSuffixWithinBudget)
           /\ SummaryProduced
                => 10 * SumTokens(RecentKept) <= 7 * ContractAvailable

\* C24 happens: a summary was produced, the messages kept cost at most 70% of
\* the budget, and one message more would have fitted the whole budget but
\* not the 70%
C24_Witness ==
    /\ Returned
    /\ config.tiktoken_ok
    /\ ContractTotal > ContractAvailable
    /\ SummaryProduced
    /\ Len(RecentKept) >= 4
    /\ LET more == LastN(conversation.messages, Len(RecentKept) + 1)
       IN  /\ 10 * SumTokens(more) > 7 * ContractAvailable
           /\ SumTokens(more) <= ContractAvailable

(***************************************************************************)
(* One RAGEngine: its own VectorStore and the one of its RetrievalEngine   *)
(***************************************************************************)
\* the arguments of search_similar_content, with every item known to the
\* sources and a working model
SearchRequests ==
    {r \in Requests : /\ r.query = <<"x">>
                      /\ r.source_filter = NoFilter
                      /\ r.known = ItemIds
                      /\ r.model = "ok"}

\* RAGEngine.__init__: VectorStore(...) loads the files, and RetrievalEngine()
\* loads them into a VectorStore of its own
InitRAGEngine ==
    /\ disk \in SeedDisks
    /\ vector_store = load_index(Dimension, disk)
    /\ ret = [op |-> "__init__"]
    /\ removed = {}
    /\ saved = Idle
    /\ InitIdleTrunc
    /\ engines = [retrieval_engine |-> load_index(Dimension, disk)]
    /\ request \in SearchRequests
    /\ InitIdleApp

\* RAGEngine.search_similar_content: retrieve_context of the RetrievalEngine,
\* over the RetrievalEngine's store
SearchSimilarContent ==
    /\ ret' = [op |-> "search_similar_content",
               results |-> retrieve_context(engines.retrieval_engine,
                               request.query, request.max_items,
                               request.min_similarity, request.source_filter,
                               request.known, request.model).results]
    /\ UNCHANGED <<vector_store, disk, removed, saved, truncVars, engines,
                   request, appVars>>

NextRAGEngine ==
    \/ \E item \in EngineItems : EngineIndexItems(<<item>>, {})
    \/ \E item \in EngineItems : EngineUpdateItemIndex(item)
    \/ \E id \in ItemIds : EngineRemoveItemIndex(id)
    \/ \E item \in EngineItems : BulkReindex(TRUE, <<item>>, {})
    \/ SearchSimilarContent

SpecRAGEngine == InitRAGEngine /\ [][NextRAGEngine]_vars

\* C25 (index and query on one RAGEngine agree): search_similar_content
\* returns what a retrieval over the engine's own store returns: the items
\* index_items and update_item_index added are found, and no item whose record
\* remove_item_index or bulk_reindex(force=True) removed is returned.
C25_IndexAndQueryAgree ==
    ret.op = "search_similar_content" =>
        LET own == retrieve_context(vector_store, request.query,
                                    request.max_items, request.min_similarity,
                                    request.source_filter, request.known,
                                    request.model).results
        IN  /\ \A i \in DOMAIN own :
                \E j \in DOMAIN ret.results :
                    ret.results[j].item_id = own[i].item_id
            /\ \A j \in DOMAIN ret.results :
                ret.results[j].item_id \in ActiveIds(vector_store)

(***************************************************************************)
(* The slot counter of the store (checked under SpecCrash)                 *)
(***************************************************************************)
\* C26 (slot counter consistency): in every reachable state of the store,
\* reloads and add_embeddings calls that raised included, next_faiss_id is the
\* number of vectors in the index and the number of metadata entries, so a
\* new embedding's metadata key is its position in the index.
C26_SlotCounter ==
    /\ vector_store.next_faiss_id = ntotal(vector_store.index)
    /\ vector_store.next_faiss_id = Cardinality(DOMAIN vector_store.metadata)

(***************************************************************************)
(* ChatSessionHandler: messages.jsonl, the message cache and process_message *)
(***************************************************************************)
MaxCalls == 5       \* process_message calls on the session

\* uuid4 ids of the messages, by the order of their creation
MessageIds == <<"m01", "m02", "m03", "m04", "m05", "m06", "m07", "m08",
                "m09", "m10", "m11", "m12", "m13", "m14", "m15", "m16">>

\* what the user sends and what the provider answers
UserContents ==
    {c \in Contents : c.text \in {"short", "huge"}}
ResponseContents ==
    {c \in Contents : c.text \in {"short", "long"}}

\* the configuration the handler's truncator sees: gpt-3.5-turbo, 4096 tokens
SessionConfigs ==
    [active_provider : {"openai"}, active_model : {"gpt-3.5-turbo"},
     tiktoken_ok : BOOLEAN, provider_ok : {TRUE}, config_ok : {TRUE}]

\* ChatSessionHandler.__init__ over a new session directory; created counts
\* the messages made so far (ids and timestamps)
NewSessionHandler ==
    [messages_file |-> <<>>, cached_messages |-> None, cache_dirty |-> FALSE,
     created |-> 0, calls |-> 0]

\* ChatMessage(id=uuid4(), role, content, timestamp=now())
ChatMessage(h, role, content) ==
    [id |-> MessageIds[h.created + 1], role |-> role, content |-> content,
     timestamp |-> h.created + 1, metadata |-> EmptyDict]

\* ChatSessionHandler.add_message: a line is appended, the cache invalidated
add_message(h, message) ==
    [h EXCEPT !.messages_file = Append(@, message),
              !.cached_messages = None,
              !.cache_dirty = TRUE,
              !.created = @ + 1]

\* ChatSessionHandler.get_messages with _load_messages: the handler
\* afterwards; its cache is the list returned
get_messages(h) ==
    IF h.cached_messages = None \/ h.cache_dirty
    THEN [h EXCEPT !.cached_messages = [list |-> h.messages_file],
                   !.cache_dirty = FALSE]
    ELSE h

\* _save_truncated_conversation that opens messages.jsonl for appending
save_truncated_conversation_append(h, truncated_messages) ==
    [h EXCEPT !.messages_file = @ \o truncated_messages,
              !.cached_messages = [list |-> truncated_messages],
              !.cache_dirty = FALSE]

\* ChatSessionHandler._save_truncated_conversation
save_truncated_conversation(h, truncated_messages) ==
    [h EXCEPT !.messages_file = truncated_messages,
              !.cached_messages = [list |-> truncated_messages],
              !.cache_dirty = FALSE]

\* _prepare_llm_messages that forwards every message of the history
prepare_llm_messages_forward_all(conversation_history, has_context) ==
    <<[role |-> "system",
       content |-> [text |-> "system_prompt", context |-> has_context]]>>
    \o [i \in DOMAIN conversation_history |->
            [role |-> conversation_history[i].role,
             content |-> conversation_history[i].content]]

\* ChatSessionHandler._prepare_llm_messages
prepare_llm_messages(conversation_history, has_context) ==
    LET Forwarded(msg) == msg.role \in {"user", "assistant"}
        kept == SelectSeq(conversation_history, Forwarded)
    IN  <<[role |-> "system",
           content |-> [text |-> "system_prompt", context |-> has_context]]>>
        \o [i \in DOMAIN kept |->
                [role |-> kept[i].role, content |-> kept[i].content]]

\* process_message that saves every list the truncator made
ShouldPersist_any_change(truncated_history, conversation_history) ==
    truncated_history # conversation_history

\* the test of process_message before _save_truncated_conversation
ShouldPersist(truncated_history, conversation_history) ==
    Len(truncated_history) < Len(conversation_history)

\* ChatSessionHandler.process_message; response is the content the provider
\* returns, or None when _generate_response raises
process_message(h, cfg, content, has_context, response) ==
    LET user_message == ChatMessage(h, "user", content)
        h1 == get_messages(add_message(h, user_message))
        conversation_history == h1.cached_messages.list
        truncated_history ==
            truncate_if_needed(conversation_history, content, cfg).list
        h2 == IF ShouldPersist(truncated_history, conversation_history)
              THEN save_truncated_conversation(h1, truncated_history)
              ELSE h1
        llm_messages == prepare_llm_messages(truncated_history, has_context)
        h3 == IF response = None THEN h2
              ELSE add_message(h2, ChatMessage(h2, "assistant", response))
    IN  [h |-> [h3 EXCEPT !.calls = @ + 1],
         conversation_history |-> conversation_history,
         truncated_history |-> truncated_history,
         llm_messages |-> llm_messages,
         raised |-> response = None]

InitSession ==
    /\ InitStore
    /\ conversation = Idle
    /\ truncated = Idle
    /\ config \in SessionConfigs
    /\ InitOneEngine
    /\ chats = Idle
    /\ configuration = Idle
    /\ history = NewSessionHandler

ProcessMessage(content, has_context, summary_ok, response) ==
    /\ history.calls < MaxCalls
    /\ LET r == process_message(history,
                                [config EXCEPT !.provider_ok = summary_ok],
                                content, has_context, response)
       IN  /\ history' = r.h
           /\ ret' = [op |-> "process_message",
                      conversation_history |-> r.conversation_history,
                      truncated_history |-> r.truncated_history,
                      llm_messages |-> r.llm_messages,
                      raised |-> r.raised]
    /\ UNCHANGED <<vector_store, disk, removed, saved, truncVars, engines,
                   request, chats, configuration>>

NextSession ==
    \E content \in UserContents, has_context, summary_ok \in BOOLEAN,
       response \in ResponseContents \cup {None} :
        ProcessMessage(content, has_context, summary_ok, response)

SpecSession == InitSession /\ [][NextSession]_vars

\* the stored history without the assistant message the call appended
StoredBeforeReply ==
    IF ret.raised THEN history.messages_file
    ELSE SubSeq(history.messages_file, 1, Len(history.messages_file) - 1)

\* C27 (persisting a truncation): process_message replaces the stored history
\* by the truncated list exactly when that list has strictly fewer messages
\* than the history; a truncated list of the same length is what the LLM call
\* is made from, and the stored history stays untruncated.
C27_PersistIffShorter ==
    ret.op = "process_message" =>
        /\ ret.llm_messages
            = prepare_llm_messages(ret.truncated_history,
                                   ret.llm_messages[1].content.context)
        /\ IF Len(ret.truncated_history) < Len(ret.conversation_history)
           THEN /\ StoredBeforeReply = ret.truncated_history
                /\ ~history.cache_dirty =>
                        history.cached_messages.list = ret.truncated_history
           ELSE StoredBeforeReply = ret.conversation_history

\* C27 happens: a truncation made a summary and as many messages as before,
\* and the stored history is the untruncated one
C27_Witness ==
    /\ ret.op = "process_message"
    /\ Len(ret.truncated_history) = Len(ret.conversation_history)
    /\ ret.truncated_history # ret.conversation_history
    /\ IsSummary(ret.truncated_history[1])
    /\ StoredBeforeReply = ret.conversation_history

\* the positions of the summary messages in a list
SummaryPositions(messages) ==
    {i \in DOMAIN messages : IsSummary(messages[i])}

\* C28 (at most one summary per session): the stored history holds at most
\* one message with is_summary, and it is the first message.
C28_AtMostOneSummary ==
    SummaryPositions(history.messages_file) \subseteq {1}

\* C28 happens: a truncation was stored over a history that began with the
\* summary of an earlier one, and the stored history begins with one summary
C28_Witness ==
    /\ ret.op = "process_message"
    /\ Len(ret.conversation_history) >= 1
    /\ IsSummary(ret.conversation_history[1])
    /\ Len(ret.truncated_history) < Len(ret.conversation_history)
    /\ SummaryPositions(history.messages_file) = {1}

\* C29 (messages sent to the LLM): one system prompt, then the user and
\* assistant messages of the truncated history in their order; no message of
\* role system of the history, the summary included, is forwarded.
C29_LlmMessages ==
    ret.op = "process_message" =>
        LET sent == Tail(ret.llm_messages)
            kept == SelectSeq(ret.truncated_history,
                              LAMBDA m : m.role \in {"user", "assistant"})
        IN  /\ ret.llm_messages[1].role = "system"
            /\ ret.llm_messages[1].content.text = "system_prompt"
            /\ \A i \in DOMAIN sent : sent[i].role \in {"user", "assistant"}
            /\ Len(sent) = Len(kept)
            /\ \A i \in DOMAIN sent :
                    /\ sent[i].role = kept[i].role
                    /\ sent[i].content = kept[i].content

\* C29 happens: the truncated history began with a summary and the LLM got
\* the system prompt and the messages after the summary
C29_Witness ==
    /\ ret.op = "process_message"
    /\ Len(ret.truncated_history) >= 2
    /\ IsSummary(ret.truncated_history[1])
    /\ Len(ret.llm_messages) = Len(ret.truncated_history)

(***************************************************************************)
(* The candidate window of search: a store of up to MaxWindowSlots slots   *)
(***************************************************************************)
MaxWindowSlots == 3     \* slots of the index, more than 2 * k for k = 1

\* add_embeddings of one embedding
WindowAdd(embedding, item_id) ==
    /\ ntotal(vector_store.index) + 1 <= MaxWindowSlots
    /\ LET r == add_embeddings(vector_store, disk, <<embedding>>,
                               <<create_embedding_metadata(item_id)>>, IoOk)
       IN  /\ Commit(r)
           /\ ret' = [op |-> "add_embeddings", raised |-> r.raised]
    /\ UNCHANGED <<removed, saved, truncVars, engines, request, appVars>>

NextWindow ==
    \/ \E v \in GoodVectors, id \in ItemIds : WindowAdd(v, id)
    \/ \E id \in ItemIds : RemoveEmbedding(id)
    \/ \E q \in Queries, k \in Ks, m \in MinSimilarities : Search(q, k, m)

SpecWindow == Init /\ [][NextWindow]_vars

\* a slot holds a record that is not deleted
ActiveSlot(vs, faiss_id) ==
    faiss_id \in DOMAIN vs.metadata /\ ~IsDeleted(vs.metadata[faiss_id])

\* the hits the window allows: of the min(2k, total) slots with the highest
\* similarity, those that are active and reach min_similarity, the first k
WindowHits(vs, query_embedding, k, min_similarity) ==
    LET window == FaissSearch(vs.index, NormalizeRow(query_embedding),
                              Min(2 * k, ntotal(vs.index)))
        Passes(c) == c.similarity >= min_similarity /\ ActiveSlot(vs, c.faiss_id)
        passing == SelectSeq(window, Passes)
    IN  SubSeq(passing, 1, Min(k, Len(passing)))

\* the active slots that reach min_similarity, in the whole index
MatchingSlots(vs, query_embedding, min_similarity) ==
    {f \in 0..(ntotal(vs.index) - 1) :
        /\ ActiveSlot(vs, f)
        /\ InnerProduct(vs.index.vectors[f + 1], NormalizeRow(query_embedding))
                >= min_similarity}

\* C30 (search candidate window): search returns the first k active hits
\* that reach min_similarity among the min(2k, total) most similar slots and
\* nothing else: a matching record behind 2k or more slots is not returned
\* even when fewer than k results come back, and deleted slots in the window
\* are not made up for from outside it.
C30_CandidateWindow ==
    ret.op = "search" =>
        /\ ret.results
            = Results(vector_store,
                      WindowHits(vector_store, ret.query, ret.k,
                                 ret.min_similarity))
        /\ Len(ret.results)
            <= Min(ret.k, Cardinality(MatchingSlots(vector_store, ret.query,
                                                    ret.min_similarity)))

\* C30 happens: the two most similar slots are deleted, a third slot is
\* active and reaches min_similarity, and search with k = 1 returns nothing
C30_Witness ==
    /\ ret.op = "search"
    /\ ret.k = 1
    /\ ntotal(vector_store.index) = 3
    /\ MatchingSlots(vector_store, ret.query, ret.min_similarity) # {}
    /\ ret.results = <<>>

====
